---- MODULE Spec2Model ----
(***************************************************************************)
(* Order lifecycle and cart checkout of the kipsunya_biz backend           *)
(* (server/orders, server/cart, server/products).                          *)
(*                                                                         *)
(* Money is counted in cents (a DecimalField with decimal_places=2 holds   *)
(* an integer number of cents); timestamps are values of a logical clock,  *)
(* 0 standing for NULL.                                                    *)
(***************************************************************************)
EXTENDS Integers, Sequences, FiniteSets, TLC

VARIABLES orders,      \* table orders_order: sequence of rows, id = index
          orderItems,  \* table orders_orderitem: sequence of rows
          history,     \* history[o]: OrderStatusHistory rows of order o, oldest first
          refunds,     \* table orders_orderrefund: sequence of rows, id = index
          products,    \* table products_product: sequence of rows, id = index
          carts,       \* carts[u]: CartItem rows of the cart of user u, oldest first
          clock,       \* timezone.now() of the latest request that stamped a time
          patched,     \* number of PATCH requests that changed a status so far
          last,        \* the request being answered and its response, or
                       \* NoRequest when the server is idle
          inflight,    \* inflight[u]: the checkout transaction of user u that
                       \* has begun and not yet committed or rolled back
          savedItems   \* savedItems[u]: SavedItem rows of user u, oldest first

vars == <<orders, orderItems, history, refunds, products, carts, clock,
          patched, last, inflight, savedItems>>

-----------------------------------------------------------------------------
(* Bounds of the model *)

MaxHist == 2
MaxClock == 2
MaxRefunds == 1
MaxOrders == 2
MaxPatch == 1
MaxQuantity == 6

-----------------------------------------------------------------------------
(* Users and roles (authentication/models.py) *)

Users == {"admin1", "vendor1", "vendor2", "customer1", "customer2"}

role == [u \in Users |->
           IF u = "admin1" THEN "admin"
           ELSE IF u \in {"vendor1", "vendor2"} THEN "vendor"
           ELSE "customer"]

\* the users that send requests to the order endpoints
Actors == Users

Null == 0
NoOrder == 0
MissingId == 99
NoTracking == "none"
NoStatus == "absent"

ORDER_STATUS_CHOICES ==
    {"pending", "confirmed", "processing", "shipped", "delivered",
     "cancelled", "refunded"}

-----------------------------------------------------------------------------
(* Decimal arithmetic *)

\* Decimal.quantize under the default context (ROUND_HALF_EVEN), as applied by
\* DecimalField when a value is written: n/d rounded to an integer, n >= 0
RoundHalfEven(n, d) ==
    LET q == n \div d
        r == n % d
    IN  IF 2 * r < d THEN q
        ELSE IF 2 * r > d THEN q + 1
        ELSE IF q % 2 = 0 THEN q ELSE q + 1

\* commission_rate of an OrderItem instance: a Decimal, counted in hundredths
\* of a percent, or the float that the field's default puts on an instance
\* built without the attribute (Model.__init__ stores default=15.00 as it is)
Decimal(hundredths) == [type |-> "Decimal", hundredths |-> hundredths]

DEFAULT_COMMISSION_RATE == [type |-> "float", hundredths |-> 1500]

\* OrderItem(**kwargs): an unsaved instance, with the defaults of the fields
\* that are not given
NewOrderItem(order_id, vendor, product_id, unit_price, quantity) ==
    [order |-> order_id, vendor |-> vendor, product_sku |-> product_id,
     unit_price |-> unit_price, quantity |-> quantity, total_price |-> 0,
     commission_rate |-> DEFAULT_COMMISSION_RATE,
     platform_commission |-> 0, vendor_earnings |-> 0]

\* a variant in which a Decimal may be multiplied by a float
OrderItemSaveRaises_Never(item) == FALSE

\* OrderItem.save raises TypeError at total_price * commission_rate when the
\* rate is a float: Decimal does not multiply with float
OrderItemSaveRaises(item) == item.commission_rate.type = "float"

\* OrderItem.save followed by the write of the three DecimalFields, for a
\* Decimal rate
OrderItemSave(item) ==
    LET total_price == item.unit_price * item.quantity
        commission_rate == item.commission_rate.hundredths
    IN  [item EXCEPT
           !.total_price = total_price,
           !.platform_commission =
               RoundHalfEven(total_price * commission_rate, 10000),
           !.vendor_earnings =
               RoundHalfEven(total_price * 10000
                               - total_price * commission_rate, 10000)]

\* a row of orders_orderitem at the rate of 15.00 percent
OrderItemRow(order_id, vendor, product_id, unit_price, quantity) ==
    OrderItemSave([NewOrderItem(order_id, vendor, product_id, unit_price,
                                quantity)
                     EXCEPT !.commission_rate = Decimal(1500)])

-----------------------------------------------------------------------------
(* Responses *)

\* `last` holds the request being answered (endpoint, authenticated user, id
\* in the URL) and what its response carries: the HTTP status, the error,
\* the two statuses an error names, and the lists of a bulk update.  The
\* body of the request (arg) is not kept.  Requests are served one at a time.
Response(op, actor, object_id, arg, code, error) ==
    [op |-> op, actor |-> actor, object |-> object_id,
     code |-> code, error |-> error, from |-> "", to |-> "",
     updated |-> {}, failed |-> {}, total |-> 0]

NoRequest == Response("none", "none", NoOrder, "", 0, "")

Idle == last = NoRequest

\* the response leaves the server
respond ==
    /\ ~Idle
    /\ last' = NoRequest
    /\ UNCHANGED <<orders, orderItems, history, refunds, products, carts,
                   clock, patched, inflight, savedItems>>

-----------------------------------------------------------------------------
(* Order lifecycle (orders/views.py) *)

OrderIds == 1..Len(orders)

\* a variant that does not filter the items by vendor
ItemsOfVendorExist_AnyVendor(order_id, user) ==
    \E i \in 1..Len(orderItems) : orderItems[i].order = order_id

\* order.items.filter(vendor=user).exists()
ItemsOfVendorExist(order_id, user) ==
    \E i \in 1..Len(orderItems) :
        orderItems[i].order = order_id /\ orderItems[i].vendor = user

transitions ==
    [s \in ORDER_STATUS_CHOICES |->
        CASE s = "pending"    -> {"confirmed", "cancelled"}
          [] s = "confirmed"  -> {"processing", "cancelled"}
          [] s = "processing" -> {"shipped", "cancelled"}
          [] s = "shipped"    -> {"delivered", "cancelled"}
          [] s = "delivered"  -> {"refunded"}
          [] s = "cancelled"  -> {}
          [] s = "refunded"   -> {}]

\* a variant of the table that lets any order be cancelled
can_update_status_Lax(current_status, new_status) ==
    new_status \in transitions[current_status] \cup {"cancelled"}

can_update_status(current_status, new_status) ==
    new_status \in transitions[current_status]

\* valid_transitions of utils.validate_order_status_transition
utils_valid_transitions ==
    [s \in ORDER_STATUS_CHOICES |->
        CASE s = "pending"    -> {"confirmed", "cancelled"}
          [] s = "confirmed"  -> {"processing", "cancelled"}
          [] s = "processing" -> {"shipped", "cancelled"}
          [] s = "shipped"    -> {"delivered", "cancelled"}
          [] s = "delivered"  -> {"refunded"}
          [] s = "cancelled"  -> {}
          [] s = "refunded"   -> {}]

\* a variant that lets a cancelled order be confirmed again
validate_order_status_transition_Reopen(current_status, new_status) ==
    \/ new_status \in utils_valid_transitions[current_status]
    \/ current_status = "cancelled" /\ new_status = "confirmed"

\* utils.validate_order_status_transition
validate_order_status_transition(current_status, new_status) ==
    new_status \in utils_valid_transitions[current_status]

\* valid_transitions of OrderUpdateSerializer.validate_status
serializer_valid_transitions ==
    [s \in ORDER_STATUS_CHOICES |->
        CASE s = "pending"    -> {"confirmed", "cancelled"}
          [] s = "confirmed"  -> {"processing", "cancelled"}
          [] s = "processing" -> {"shipped", "cancelled"}
          [] s = "shipped"    -> {"delivered", "cancelled"}
          [] s = "delivered"  -> {"refunded"}
          [] s = "cancelled"  -> {}
          [] s = "refunded"   -> {}]

\* OrderUpdateSerializer.validate_status on an instance whose status is
\* current_status: TRUE when the value is returned, FALSE when
\* ValidationError is raised
validate_status(current_status, value) ==
    value \in serializer_valid_transitions[current_status]

\* one of the three definitions is asked about a pair of statuses; the answer
\* is kept as the code of the response (200 for yes, 400 for no)
Asked(definition, current_status, new_status, answer) ==
    /\ last' = [Response(definition, "none", NoOrder, "",
                         IF answer THEN 200 ELSE 400, "")
                  EXCEPT !.from = current_status, !.to = new_status]
    /\ UNCHANGED <<orders, orderItems, history, refunds, products, carts,
                   clock, patched, inflight, savedItems>>

call_can_update_status(current_status, new_status) ==
    Asked("_can_update_status", current_status, new_status,
          can_update_status(current_status, new_status))

call_validate_order_status_transition(current_status, new_status) ==
    Asked("validate_order_status_transition", current_status, new_status,
          validate_order_status_transition(current_status, new_status))

call_validate_status(current_status, value) ==
    Asked("validate_status", current_status, value,
          validate_status(current_status, value))

HistoryRow(previous_status, new_status, changed_by, notes) ==
    [previous_status |-> previous_status, new_status |-> new_status,
     changed_by |-> changed_by, notes |-> notes]

\* the timestamp and tracking assignments of update_order_status
StampOrder(order, new_status, now, tracking_number) ==
    LET old_status == order.status
        o1 == [order EXCEPT !.status = new_status]
    IN  IF new_status = "confirmed" /\ old_status # "confirmed"
        THEN [o1 EXCEPT !.confirmed_at = now]
        ELSE IF new_status = "shipped" /\ old_status # "shipped"
        THEN [o1 EXCEPT !.shipped_at = now,
                        !.tracking_number =
                            IF tracking_number # NoTracking
                            THEN tracking_number ELSE @]
        ELSE IF new_status = "delivered" /\ old_status # "delivered"
        THEN [o1 EXCEPT !.delivered_at = now]
        ELSE o1

\* PUT /api/orders/{order_id}/status/
update_order_status(user, order_id, new_status, tracking_number) ==
    LET op == "update_order_status"
        Reply(code, error) ==
            /\ last' = Response(op, user, order_id, new_status, code, error)
            /\ UNCHANGED <<orders, orderItems, history, refunds, products,
                           carts, clock, patched, inflight, savedItems>>
    IN
    IF order_id \notin OrderIds THEN Reply(404, "Not found")
    ELSE IF role[user] = "vendor" /\ ~ItemsOfVendorExist(order_id, user)
    THEN Reply(403, "You do not have permission to update this order")
    ELSE IF role[user] # "vendor" /\ role[user] \notin {"admin"}
    THEN Reply(403, "Only vendors and admins can update order status")
    ELSE IF new_status \notin ORDER_STATUS_CHOICES
    THEN Reply(400, "Invalid status")
    ELSE IF ~can_update_status(orders[order_id].status, new_status)
    THEN /\ last' = [Response(op, user, order_id, new_status, 400,
                              "Cannot change status")
                       EXCEPT !.from = orders[order_id].status,
                              !.to = new_status]
         /\ UNCHANGED <<orders, orderItems, history, refunds, products,
                        carts, clock, patched, inflight, savedItems>>
    ELSE LET stamps == new_status \in {"confirmed", "shipped", "delivered"}
             now == clock + 1
         IN  /\ Len(history[order_id]) < MaxHist
             /\ stamps => clock < MaxClock
             /\ history' = [history EXCEPT ![order_id] =
                    Append(@, HistoryRow(orders[order_id].status, new_status,
                                         user, ""))]
             /\ clock' = IF stamps THEN now ELSE clock
             /\ orders' = [orders EXCEPT ![order_id] =
                    StampOrder(@, new_status, now, tracking_number)]
             /\ last' = Response(op, user, order_id, new_status, 200, "")
             /\ UNCHANGED <<orderItems, refunds, products, carts, patched, inflight,
                            savedItems>>

\* OrderDetailView.get_queryset, which IsCustomerOrVendor.has_object_permission
\* repeats: the orders a user may retrieve, update or delete
InQueryset(user, pk) ==
    /\ pk \in OrderIds
    /\ CASE role[user] = "customer" -> orders[pk].customer = user
         [] role[user] = "vendor"   -> ItemsOfVendorExist(pk, user)
         [] role[user] = "admin"    -> TRUE
         [] OTHER                   -> FALSE

\* PATCH /api/orders/{pk}/ with OrderDetailSerializer: `status` is a writable
\* ChoiceField; data_status = NoStatus is a request that does not carry it
order_detail_update(user, pk, data_status) ==
    LET op == "order_detail_update"
        Reply(code, error) ==
            /\ last' = Response(op, user, pk, data_status, code, error)
            /\ UNCHANGED <<orders, orderItems, history, refunds, products,
                           carts, clock, patched, inflight, savedItems>>
    IN
    IF ~InQueryset(user, pk) THEN Reply(404, "Not found")
    ELSE IF data_status \notin ORDER_STATUS_CHOICES \cup {NoStatus}
    THEN Reply(400, "Invalid choice")
    ELSE LET old_status == orders[pk].status
             updated_order == IF data_status = NoStatus THEN orders[pk]
                              ELSE [orders[pk] EXCEPT !.status = data_status]
             changed == data_status # NoStatus
                          /\ old_status # updated_order.status
         IN  /\ changed => Len(history[pk]) < MaxHist /\ patched < MaxPatch
             /\ patched' = IF changed THEN patched + 1 ELSE patched
             /\ orders' = [orders EXCEPT ![pk] = updated_order]
             /\ history' = IF changed
                           THEN [history EXCEPT ![pk] =
                                   Append(@, HistoryRow(old_status,
                                       updated_order.status, user, ""))]
                           ELSE history
             /\ last' = Response(op, user, pk, data_status, 200, "")
             /\ UNCHANGED <<orderItems, refunds, products, carts, clock, inflight,
                            savedItems>>

\* DELETE /api/orders/{pk}/ : perform_destroy cancels instead of deleting
order_detail_destroy(user, pk) ==
    LET op == "order_detail_destroy"
        Reply(code, error) ==
            /\ last' = Response(op, user, pk, "", code, error)
            /\ UNCHANGED <<orders, orderItems, history, refunds, products,
                           carts, clock, patched, inflight, savedItems>>
    IN
    IF ~InQueryset(user, pk) THEN Reply(404, "Not found")
    ELSE IF orders[pk].status \in {"delivered", "cancelled", "refunded"}
    THEN Reply(500, "Cannot cancel this order")
    ELSE LET instance == [orders[pk] EXCEPT !.status = "cancelled"]
         IN  /\ Len(history[pk]) < MaxHist
             /\ orders' = [orders EXCEPT ![pk] = instance]
             /\ history' = [history EXCEPT ![pk] =
                    Append(@, HistoryRow(instance.status, "cancelled", user,
                                         "Order cancelled by user"))]
             /\ last' = Response(op, user, pk, "", 204, "")
             /\ UNCHANGED <<orderItems, refunds, products, carts, clock,
                            patched, inflight, savedItems>>

\* the orders of a queryset in Order.Meta.ordering (newest first)
RECURSIVE NewestFirst(_)
NewestFirst(ids) ==
    IF ids = {} THEN <<>>
    ELSE LET newest == CHOOSE i \in ids : \A j \in ids : j <= i
         IN  <<newest>> \o NewestFirst(ids \ {newest})

\* the loop of bulk_status_update over the selected orders; `raising` are the
\* orders whose order.save() raises a database error, which the loop catches.
\* acc.fits records that the model's bounds were respected
RECURSIVE BulkLoop(_, _, _, _, _)
BulkLoop(todo, new_status, user, raising, acc) ==
    IF todo = <<>> THEN acc
    ELSE
      LET id == Head(todo)
          order == acc.orders[id]
          stamps == new_status \in {"confirmed", "shipped", "delivered"}
          now == acc.clock + 1
          logged == [acc.history EXCEPT ![id] =
                       Append(@, HistoryRow(order.status, new_status, user,
                                            "Bulk status update"))]
          next ==
            IF can_update_status(order.status, new_status)
            THEN IF id \in raising
                 THEN [acc EXCEPT
                         !.history = logged,
                         !.failed = @ \cup {id},
                         !.fits = @ /\ Len(acc.history[id]) < MaxHist]
                 ELSE [acc EXCEPT
                         !.history = logged,
                         !.orders = [@ EXCEPT ![id] =
                             StampOrder(order, new_status, now, NoTracking)],
                         !.clock = IF stamps THEN now ELSE @,
                         !.updated = @ \cup {id},
                         !.fits = /\ @
                                  /\ Len(acc.history[id]) < MaxHist
                                  /\ stamps => acc.clock < MaxClock]
            ELSE [acc EXCEPT !.failed = @ \cup {id}]
      IN  BulkLoop(Tail(todo), new_status, user, raising, next)

\* PUT /api/orders/bulk/status-update/
bulk_status_update(user, order_ids, new_status, raising) ==
    LET op == "bulk_status_update"
        Reply(code, error) ==
            /\ last' = Response(op, user, NoOrder, new_status, code, error)
            /\ UNCHANGED <<orders, orderItems, history, refunds, products,
                           carts, clock, patched, inflight, savedItems>>
    IN
    IF role[user] \notin {"vendor", "admin"}
    THEN Reply(403, "Only vendors and admins can bulk update orders")
    ELSE IF order_ids = {} \/ new_status = NoStatus
    THEN Reply(400, "order_ids and status are required")
    ELSE IF new_status \notin ORDER_STATUS_CHOICES
    THEN Reply(400, "Invalid status")
    ELSE
      LET found == order_ids \cap OrderIds
          selected == IF role[user] = "vendor"
                      THEN {id \in found : ItemsOfVendorExist(id, user)}
                      ELSE found
          result == BulkLoop(NewestFirst(selected), new_status, user, raising,
                             [orders |-> orders, history |-> history,
                              clock |-> clock, updated |-> {},
                              failed |-> {}, fits |-> TRUE])
      IN  /\ result.fits
          /\ orders' = result.orders
          /\ history' = result.history
          /\ clock' = result.clock
          /\ last' = [Response(op, user, NoOrder, new_status, 200, "")
                        EXCEPT !.updated = result.updated,
                               !.failed = result.failed,
                               !.total = Cardinality(order_ids)]
          /\ UNCHANGED <<orderItems, refunds, products, carts, patched, inflight,
                         savedItems>>

NoUser == "none"

\* a variant that leaves net_refund_amount as it stands
OrderRefundSave_Stale(refund) == refund

\* OrderRefund.save
OrderRefundSave(refund) ==
    [refund EXCEPT !.net_refund_amount = refund.refund_amount - refund.processing_fee]

\* a variant that lets any order be refunded
CanBeRefunded_Any(order) == TRUE

\* `order.status not in ['delivered']` of perform_create, negated
CanBeRefunded(order) == order.status \in {"delivered"}

\* POST /api/orders/refunds/ : OrderRefundListCreateView.perform_create, after
\* OrderRefundSerializer accepted the data (its `order` field rejects the id
\* of no order); refund_amount and processing_fee are fields of the request
request_refund(user, order_id, refund_amount, processing_fee) ==
    LET op == "request_refund"
        Reply(code, error) ==
            /\ last' = Response(op, user, order_id, "", code, error)
            /\ UNCHANGED <<orders, orderItems, history, refunds, products,
                           carts, clock, patched, inflight, savedItems>>
    IN
    IF order_id \notin OrderIds THEN Reply(400, "Invalid pk")
    ELSE IF orders[order_id].customer # user
    THEN Reply(500, "You can only request refunds for your own orders")
    ELSE IF ~CanBeRefunded(orders[order_id])
    THEN Reply(500, "Only delivered orders can be refunded")
    ELSE /\ Len(refunds) < MaxRefunds
         /\ refunds' = Append(refunds,
                OrderRefundSave([order |-> order_id, status |-> "requested",
                                 refund_amount |-> refund_amount,
                                 processing_fee |-> processing_fee,
                                 net_refund_amount |-> 0,
                                 requested_by |-> user,
                                 processed_by |-> NoUser,
                                 processed_at |-> Null]))
         /\ last' = Response(op, user, order_id, "", 201, "")
         /\ UNCHANGED <<orders, orderItems, history, products, carts, clock,
                        patched, inflight, savedItems>>

\* a variant that accepts any new status
ProcessableStatus_Any(new_status) == TRUE

\* `new_status not in ['approved', 'rejected', 'completed']`, negated
ProcessableStatus(new_status) ==
    new_status \in {"approved", "rejected", "completed"}

\* PUT /api/orders/refunds/{refund_id}/process/
process_refund(user, refund_id, new_status) ==
    LET op == "process_refund"
        Reply(code, error) ==
            /\ last' = Response(op, user, refund_id, new_status, code, error)
            /\ UNCHANGED <<orders, orderItems, history, refunds, products,
                           carts, clock, patched, inflight, savedItems>>
    IN
    IF role[user] # "admin" THEN Reply(403, "Only admins can process refunds")
    ELSE IF refund_id \notin 1..Len(refunds) THEN Reply(404, "Not found")
    ELSE IF ~ProcessableStatus(new_status)
    THEN Reply(400, "Invalid status")
    ELSE LET now == clock + 1
             refund == OrderRefundSave([refunds[refund_id] EXCEPT
                          !.status = new_status,
                          !.processed_by = user,
                          !.processed_at = now])
         IN  /\ clock < MaxClock
             /\ clock' = now
             /\ refunds' = [refunds EXCEPT ![refund_id] = refund]
             /\ orders' = IF new_status = "completed"
                          THEN [orders EXCEPT ![refund.order].status = "refunded"]
                          ELSE orders
             /\ last' = Response(op, user, refund_id, new_status, 200, "")
             /\ UNCHANGED <<orderItems, history, products, carts, patched, inflight,
                            savedItems>>

\* refund_amount of a stored refund that is not completed is edited outside
\* the API: by an assignment followed by save(), or by a queryset update()
\* that does not call save()
edit_refund_amount(refund_id, refund_amount, saved) ==
    /\ refund_id \in 1..Len(refunds)
    /\ refunds[refund_id].status # "completed"
    /\ refunds[refund_id].refund_amount # refund_amount
    /\ LET refund == [refunds[refund_id] EXCEPT
                        !.refund_amount = refund_amount]
       IN  refunds' = [refunds EXCEPT ![refund_id] =
                          IF saved THEN OrderRefundSave(refund) ELSE refund]
    /\ UNCHANGED <<orders, orderItems, history, products, carts, clock,
                   patched, last, inflight, savedItems>>

\* a variant that keeps only the newest note of an order
order_notes_Overwrite(user, order_id, content) ==
    /\ order_id \in OrderIds
    /\ content # ""
    /\ history' = [history EXCEPT ![order_id] =
           <<HistoryRow(orders[order_id].status, orders[order_id].status,
                        user, content)>>]
    /\ last' = Response("order_notes", user, order_id, content, 200, "")
    /\ UNCHANGED <<orders, orderItems, refunds, products, carts, clock,
                   patched, inflight, savedItems>>

\* POST /api/orders/{order_id}/notes/
order_notes(user, order_id, content) ==
    LET op == "order_notes"
        Reply(code, error) ==
            /\ last' = Response(op, user, order_id, content, code, error)
            /\ UNCHANGED <<orders, orderItems, history, refunds, products,
                           carts, clock, patched, inflight, savedItems>>
    IN
    IF order_id \notin OrderIds THEN Reply(404, "Not found")
    ELSE IF role[user] = "customer" /\ orders[order_id].customer # user
    THEN Reply(403, "You can only access your own orders")
    ELSE IF role[user] = "vendor" /\ ~ItemsOfVendorExist(order_id, user)
    THEN Reply(403, "You can only access orders containing your products")
    ELSE IF content = ""
    THEN Reply(400, "Note content is required")
    ELSE /\ Len(history[order_id]) < MaxHist
         /\ history' = [history EXCEPT ![order_id] =
                Append(@, HistoryRow(orders[order_id].status,
                                     orders[order_id].status, user, content))]
         /\ last' = Response(op, user, order_id, content, 200, "")
         /\ UNCHANGED <<orders, orderItems, refunds, products, carts, clock,
                        patched, inflight, savedItems>>

-----------------------------------------------------------------------------
(* Catalogue, cart and checkout (products/, cart/) *)

\* Product.objects.get(id=product_id) finds a row: `deleted` marks a row that
\* product.delete() removed (ids are not reused)
ProductExists(rows, product_id) ==
    product_id \in 1..Len(rows) /\ ~rows[product_id].deleted

ProductIds == {product_id \in 1..Len(products) :
                  ProductExists(products, product_id)}

\* Product.is_available
is_available(product) ==
    product.in_stock /\ product.stock_quantity > 0 /\ product.is_active

\* Product.save
ProductSave(product) ==
    IF product.stock_quantity <= 0
    THEN [product EXCEPT !.in_stock = FALSE]
    ELSE product

\* PUT/PATCH /api/products/{product_id}/update/ carrying a price
update_product(user, product_id, price) ==
    LET op == "update_product"
        Reply(code, error) ==
            /\ last' = Response(op, user, product_id, "", code, error)
            /\ UNCHANGED <<orders, orderItems, history, refunds, products,
                           carts, clock, patched, inflight, savedItems>>
    IN
    IF \/ product_id \notin ProductIds
       \/ role[user] # "admin" /\ products[product_id].vendor # user
    THEN Reply(404, "Product not found")
    ELSE IF price < 1
    THEN Reply(400, "Invalid price")
    ELSE /\ products' = [products EXCEPT ![product_id] =
                            ProductSave([@ EXCEPT !.price = price])]
         /\ last' = Response(op, user, product_id, "", 200, "")
         /\ UNCHANGED <<orders, orderItems, history, refunds, carts, clock,
                        patched, inflight, savedItems>>

\* PUT/PATCH /api/products/{product_id}/update/ carrying is_active
update_product_active(user, product_id, is_active) ==
    LET op == "update_product"
        Reply(code, error) ==
            /\ last' = Response(op, user, product_id, "", code, error)
            /\ UNCHANGED <<orders, orderItems, history, refunds, products,
                           carts, clock, patched, inflight, savedItems>>
    IN
    IF \/ product_id \notin ProductIds
       \/ role[user] # "admin" /\ products[product_id].vendor # user
    THEN Reply(404, "Product not found")
    ELSE /\ products' = [products EXCEPT ![product_id] =
                            ProductSave([@ EXCEPT !.is_active = is_active])]
         /\ last' = Response(op, user, product_id, "", 200, "")
         /\ UNCHANGED <<orders, orderItems, history, refunds, carts, clock,
                        patched, inflight, savedItems>>

\* PUT/PATCH /api/products/{product_id}/update/ carrying stock_quantity
update_product_stock(user, product_id, stock_quantity) ==
    LET op == "update_product"
        Reply(code, error) ==
            /\ last' = Response(op, user, product_id, "", code, error)
            /\ UNCHANGED <<orders, orderItems, history, refunds, products,
                           carts, clock, patched, inflight, savedItems>>
    IN
    IF \/ product_id \notin ProductIds
       \/ role[user] # "admin" /\ products[product_id].vendor # user
    THEN Reply(404, "Product not found")
    ELSE IF stock_quantity < 0
    THEN Reply(400, "Invalid stock_quantity")
    ELSE /\ products' = [products EXCEPT ![product_id] =
                            ProductSave([@ EXCEPT !.stock_quantity =
                                                     stock_quantity])]
         /\ last' = Response(op, user, product_id, "", 200, "")
         /\ UNCHANGED <<orders, orderItems, history, refunds, carts, clock,
                        patched, inflight, savedItems>>

\* DELETE /api/products/{product_id}/delete/
delete_product(user, product_id) ==
    LET op == "delete_product"
        Reply(code, error) ==
            /\ last' = Response(op, user, product_id, "", code, error)
            /\ UNCHANGED <<orders, orderItems, history, refunds, products,
                           carts, clock, patched, inflight, savedItems>>
    IN
    IF \/ product_id \notin ProductIds
       \/ role[user] # "admin" /\ products[product_id].vendor # user
    THEN Reply(404, "Product not found")
    ELSE /\ products' = [products EXCEPT ![product_id].deleted = TRUE]
         /\ last' = Response(op, user, product_id, "", 200, "")
         /\ UNCHANGED <<orders, orderItems, history, refunds, carts, clock,
                        patched, inflight, savedItems>>

\* User.objects.filter(is_superuser=True).first() or User.objects.first():
\* the vendor add_to_cart records on a new line
Superusers == {"admin1"}

DefaultVendor == CHOOSE u \in Superusers : TRUE

\* a variant that never finds the line
LineOf_None(cart, product_id) == 0

\* the index of the line of `cart` for product_id, 0 when there is none
LineOf(cart, product_id) ==
    IF \E i \in 1..Len(cart) : cart[i].product_id = product_id
    THEN CHOOSE i \in 1..Len(cart) : cart[i].product_id = product_id
    ELSE 0

\* POST /api/cart/add/
add_to_cart(user, product_id, quantity) ==
    LET op == "add_to_cart"
        Reply(code, error) ==
            /\ last' = Response(op, user, product_id, "", code, error)
            /\ UNCHANGED <<orders, orderItems, history, refunds, products,
                           carts, clock, patched, inflight, savedItems>>
    IN
    IF quantity < 1 THEN Reply(400, "Invalid quantity")
    ELSE IF product_id \notin ProductIds \/ ~products[product_id].is_active
    THEN Reply(400, "Product not found")
    ELSE IF ~is_available(products[product_id])
    THEN Reply(400, "Product is not available")
    ELSE IF quantity > products[product_id].stock_quantity
    THEN Reply(400, "Not enough stock")
    ELSE
      LET product == products[product_id]
          cart == carts[user]
          i == LineOf(cart, product_id)
      IN  IF i # 0
          THEN LET new_quantity == cart[i].quantity + quantity
               IN  IF new_quantity > product.stock_quantity
                   THEN Reply(400, "Cannot add more")
                   ELSE /\ carts' = [carts EXCEPT ![user][i].quantity =
                                        new_quantity]
                        /\ last' = Response(op, user, product_id, "", 200, "")
                        /\ UNCHANGED <<orders, orderItems, history, refunds,
                                       products, clock, patched, inflight,
                                       savedItems>>
          ELSE /\ carts' = [carts EXCEPT ![user] =
                     Append(@, [product_id |-> product_id,
                                unit_price |-> product.price,
                                quantity |-> quantity,
                                vendor |-> DefaultVendor])]
               /\ last' = Response(op, user, product_id, "", 200, "")
               /\ UNCHANGED <<orders, orderItems, history, refunds, products,
                              clock, patched, inflight, savedItems>>

\* CartItem.total_price, in cents
CartItemTotalPrice(cart_item) == cart_item.unit_price * cart_item.quantity

\* Cart.subtotal, in cents
RECURSIVE CartSubtotal(_)
CartSubtotal(cart) ==
    IF cart = <<>> THEN 0
    ELSE CartItemTotalPrice(Head(cart)) + CartSubtotal(Tail(cart))

TAX_RATE == 16   \* Decimal('0.16'), in hundredths

\* Cart.total_amount, in 1/10000: subtotal + subtotal * tax_rate + shipping
CartTotalAmount(cart) ==
    CartSubtotal(cart) * 100 + CartSubtotal(cart) * TAX_RATE + 0

\* cart.items.all() in CartItem.Meta.ordering (newest line first)
RECURSIVE CartItemsAll(_)
CartItemsAll(cart) ==
    IF cart = <<>> THEN <<>>
    ELSE CartItemsAll(Tail(cart)) \o <<Head(cart)>>

\* Other operations on cart lines (cart/views.py).  A cart belongs to a user
\* or to the session of an anonymous visitor; a line is named by its index.

Sessions == {"session1"}

\* the lines of a sequence except the i-th
Without(rows, i) ==
    SubSeq(rows, 1, i - 1) \o SubSeq(rows, i + 1, Len(rows))

\* the loop of quick_add_to_cart over the items of the request
RECURSIVE QuickAddItems(_, _)
QuickAddItems(cart, items) ==
    IF items = <<>> THEN cart
    ELSE
      LET product_id == Head(items).product_id
          quantity == Head(items).quantity
          i == LineOf(cart, product_id)
          added ==
            IF product_id \notin ProductIds \/ ~products[product_id].is_active
            THEN cart
            ELSE IF \/ ~is_available(products[product_id])
                    \/ quantity > products[product_id].stock_quantity
            THEN cart
            ELSE IF i # 0
            THEN [cart EXCEPT ![i].quantity = @ + quantity]
            ELSE Append(cart, [product_id |-> product_id,
                               unit_price |-> products[product_id].price,
                               quantity |-> quantity,
                               vendor |-> DefaultVendor])
      IN  QuickAddItems(added, Tail(items))

\* the greatest quantity of a line of the cart, 0 for an empty cart
RECURSIVE MaxLineQuantity(_)
MaxLineQuantity(cart) ==
    IF cart = <<>> THEN 0
    ELSE LET rest == MaxLineQuantity(Tail(cart))
         IN  IF Head(cart).quantity > rest THEN Head(cart).quantity ELSE rest

\* POST /api/cart/quick-add/
quick_add_to_cart(owner, items) ==
    LET op == "quick_add_to_cart"
    IN  IF items = <<>>
        THEN /\ last' = Response(op, owner, NoOrder, "", 400,
                                 "No items provided")
             /\ UNCHANGED <<orders, orderItems, history, refunds, products,
                            carts, clock, patched, inflight, savedItems>>
        ELSE LET cart == QuickAddItems(carts[owner], items)
             IN  /\ MaxLineQuantity(cart) <= MaxQuantity
                 /\ carts' = [carts EXCEPT ![owner] = cart]
                 /\ last' = Response(op, owner, NoOrder, "", 200, "")
                 /\ UNCHANGED <<orders, orderItems, history, refunds,
                                products, clock, patched, inflight,
                                savedItems>>

\* PUT /api/cart/items/{item_id}/
update_cart_item(owner, item_id, quantity) ==
    LET op == "update_cart_item"
        Reply(code, error) ==
            /\ last' = Response(op, owner, item_id, "", code, error)
            /\ UNCHANGED <<orders, orderItems, history, refunds, products,
                           carts, clock, patched, inflight, savedItems>>
    IN
    IF item_id \notin 1..Len(carts[owner]) THEN Reply(404, "Not found")
    ELSE IF quantity < 1 THEN Reply(400, "quantity")
    ELSE
      LET product_id == carts[owner][item_id].product_id
      IN  IF /\ ProductExists(products, product_id)
             /\ quantity > products[product_id].stock_quantity
          THEN Reply(400, "quantity")
          ELSE /\ carts' = [carts EXCEPT ![owner][item_id].quantity =
                               quantity]
               /\ last' = Response(op, owner, item_id, "", 200, "")
               /\ UNCHANGED <<orders, orderItems, history, refunds, products,
                              clock, patched, inflight, savedItems>>

\* DELETE /api/cart/items/{item_id}/remove/
remove_cart_item(owner, item_id) ==
    LET op == "remove_cart_item"
    IN  IF item_id \notin 1..Len(carts[owner])
        THEN /\ last' = Response(op, owner, item_id, "", 404, "Not found")
             /\ UNCHANGED <<orders, orderItems, history, refunds, products,
                            carts, clock, patched, inflight, savedItems>>
        ELSE /\ carts' = [carts EXCEPT ![owner] = Without(@, item_id)]
             /\ last' = Response(op, owner, item_id, "", 200, "")
             /\ UNCHANGED <<orders, orderItems, history, refunds, products,
                            clock, patched, inflight, savedItems>>

\* POST /api/cart/clear/
clear_cart(owner) ==
    /\ carts' = [carts EXCEPT ![owner] = <<>>]
    /\ last' = Response("clear_cart", owner, NoOrder, "", 200, "")
    /\ UNCHANGED <<orders, orderItems, history, refunds, products, clock,
                   patched, inflight, savedItems>>

\* the index of the saved item of the product, 0 when there is none
SavedOf(saved, product_id) ==
    IF \E i \in 1..Len(saved) : saved[i].product_id = product_id
    THEN CHOOSE i \in 1..Len(saved) : saved[i].product_id = product_id
    ELSE 0

\* POST /api/cart/items/{item_id}/save/
save_for_later(user, item_id) ==
    LET op == "save_for_later"
    IN  IF item_id \notin 1..Len(carts[user])
        THEN /\ last' = Response(op, user, item_id, "", 404, "Not found")
             /\ UNCHANGED <<orders, orderItems, history, refunds, products,
                            carts, clock, patched, inflight, savedItems>>
        ELSE LET cart_item == carts[user][item_id]
             IN  /\ savedItems' =
                        IF SavedOf(savedItems[user], cart_item.product_id) # 0
                        THEN savedItems
                        ELSE [savedItems EXCEPT ![user] =
                                Append(@, [product_id |-> cart_item.product_id,
                                           unit_price |-> cart_item.unit_price,
                                           vendor |-> cart_item.vendor])]
                 /\ carts' = [carts EXCEPT ![user] = Without(@, item_id)]
                 /\ last' = Response(op, user, item_id, "", 200, "")
                 /\ UNCHANGED <<orders, orderItems, history, refunds,
                                products, clock, patched, inflight>>

\* The id of a CartItem names the cart that holds the line and the place of
\* the line in it.
CartItemId(cart, index) == [cart |-> cart, index |-> index]

\* get_object_or_404(CartItem, id=item_id, cart=cart): the line when the cart
\* of the request holds it, and otherwise no line of that cart (404)
get_object_or_404(cart, item) ==
    IF item.cart = cart THEN item ELSE CartItemId(cart, 0)

\* CartItem.objects.filter(id__in=item_ids, cart=cart): the places of the
\* lines of the cart that the request names
CartItemsIn(cart, item_ids) ==
    {item.index : item \in {it \in item_ids :
                              /\ it.cart = cart
                              /\ it.index \in 1..Len(carts[cart])}}

\* the lines of the cart at the places given, and the lines at the others
LinesAt(cart, places) ==
    LET F[i \in 0..Len(cart)] ==
            IF i = 0 THEN <<>>
            ELSE IF i \in places THEN Append(F[i - 1], cart[i])
            ELSE F[i - 1]
    IN  F[Len(cart)]

\* the loop of bulk_cart_actions that saves lines for later: a line of a
\* product the user has saved already adds no SavedItem
RECURSIVE BulkSave(_, _)
BulkSave(saved, lines) ==
    IF lines = <<>> THEN saved
    ELSE LET item == Head(lines)
         IN  BulkSave(IF SavedOf(saved, item.product_id) # 0 THEN saved
                      ELSE Append(saved, [product_id |-> item.product_id,
                                          unit_price |-> item.unit_price,
                                          vendor |-> item.vendor]),
                      Tail(lines))

BULK_ACTION_CHOICES == {"remove", "save_for_later", "move_to_cart"}

\* POST /api/cart/bulk/
bulk_cart_actions(owner, action, item_ids) ==
    LET op == "bulk_cart_actions"
        Reply(code, error) ==
            /\ last' = Response(op, owner, NoOrder, "", code, error)
            /\ UNCHANGED <<orders, orderItems, history, refunds, products,
                           carts, clock, patched, inflight, savedItems>>
        cart_items == CartItemsIn(owner, item_ids)
        kept == LinesAt(carts[owner], (1..Len(carts[owner])) \ cart_items)
    IN
    IF action \notin BULK_ACTION_CHOICES \/ item_ids = {}
    THEN Reply(400, "Invalid request")
    ELSE IF cart_items = {}
    THEN Reply(404, "No valid cart items found")
    ELSE IF action = "remove"
    THEN /\ carts' = [carts EXCEPT ![owner] = kept]
         /\ last' = Response(op, owner, NoOrder, "", 200, "")
         /\ UNCHANGED <<orders, orderItems, history, refunds, products,
                        clock, patched, inflight, savedItems>>
    ELSE IF action = "save_for_later"
    THEN IF owner \notin Users
         THEN Reply(401, "Authentication required for saving items")
         ELSE /\ savedItems' = [savedItems EXCEPT ![owner] =
                     BulkSave(@, CartItemsAll(LinesAt(carts[owner],
                                                      cart_items)))]
              /\ carts' = [carts EXCEPT ![owner] = kept]
              /\ last' = Response(op, owner, NoOrder, "", 200, "")
              /\ UNCHANGED <<orders, orderItems, history, refunds, products,
                             clock, patched, inflight>>
    ELSE Reply(200, "")

\* POST /api/cart/saved/{saved_item_id}/move/
move_to_cart(user, saved_item_id, quantity) ==
    LET op == "move_to_cart"
        Reply(code, error) ==
            /\ last' = Response(op, user, saved_item_id, "", code, error)
            /\ UNCHANGED <<orders, orderItems, history, refunds, products,
                           carts, clock, patched, inflight, savedItems>>
    IN
    IF saved_item_id \notin 1..Len(savedItems[user])
    THEN Reply(404, "Not found")
    ELSE IF quantity <= 0 THEN Reply(400, "Quantity must be greater than 0")
    ELSE
      LET saved_item == savedItems[user][saved_item_id]
          product_id == saved_item.product_id
      IN  IF product_id \notin ProductIds \/ ~products[product_id].is_active
          THEN Reply(404, "Product no longer exists")
          ELSE IF \/ ~is_available(products[product_id])
                  \/ quantity > products[product_id].stock_quantity
          THEN Reply(400, "Product is no longer available")
          ELSE
            LET product == products[product_id]
                cart == carts[user]
                i == LineOf(cart, product_id)
            IN  IF i # 0 /\ cart[i].quantity + quantity
                               > product.stock_quantity
                THEN Reply(400, "Cannot add more")
                ELSE /\ carts' = [carts EXCEPT ![user] =
                           IF i # 0
                           THEN [cart EXCEPT ![i].quantity = @ + quantity]
                           ELSE Append(cart,
                                       [product_id |-> product_id,
                                        unit_price |-> product.price,
                                        quantity |-> quantity,
                                        vendor |-> saved_item.vendor])]
                     /\ savedItems' = [savedItems EXCEPT ![user] =
                           Without(@, saved_item_id)]
                     /\ last' = Response(op, user, saved_item_id, "", 200, "")
                     /\ UNCHANGED <<orders, orderItems, history, refunds,
                                    products, clock, patched, inflight>>

\* a variant that moves every line of the anonymous cart to the user's cart
MergeItems_Reparent(user_cart, anon_items) == user_cart \o anon_items

\* the loop of merge_carts over the lines of the anonymous cart, newest
\* first: a line of a product the user's cart holds adds its quantity to
\* that line, any other line moves to the user's cart
RECURSIVE MergeItems(_, _)
MergeItems(user_cart, anon_items) ==
    IF anon_items = <<>> THEN user_cart
    ELSE
      LET anon_item == Head(anon_items)
          i == LineOf(user_cart, anon_item.product_id)
      IN  MergeItems(IF i # 0
                     THEN [user_cart EXCEPT
                             ![i].quantity = @ + anon_item.quantity]
                     ELSE Append(user_cart, anon_item),
                     Tail(anon_items))

\* POST /api/cart/merge/ by a user whose session owns an anonymous cart; the
\* anonymous cart is deleted with the lines left in it
merge_carts(user, session) ==
    LET user_cart == MergeItems(carts[user], CartItemsAll(carts[session]))
    IN  /\ MaxLineQuantity(user_cart) <= MaxQuantity
        /\ carts' = [carts EXCEPT ![user] = user_cart, ![session] = <<>>]
        /\ last' = Response("merge_carts", user, NoOrder, "", 200, "")
        /\ UNCHANGED <<orders, orderItems, history, refunds, products, clock,
                       patched, inflight, savedItems>>

\* Order.objects.create of checkout: the five amounts arrive in 1/10000 and
\* are written to DecimalFields of two decimal places (kept in cents)
Order_objects_create(customer, subtotal, tax_amount, shipping_fee, discount_amount, total_amount) ==
    [customer |-> customer, status |-> "pending",
     subtotal |-> RoundHalfEven(subtotal, 100),
     tax_amount |-> RoundHalfEven(tax_amount, 100),
     shipping_fee |-> RoundHalfEven(shipping_fee, 100),
     discount_amount |-> RoundHalfEven(discount_amount, 100),
     total_amount |-> RoundHalfEven(total_amount, 100),
     confirmed_at |-> Null, shipped_at |-> Null, delivered_at |-> Null,
     tracking_number |-> NoTracking]

\* text fields of a request are sequences of characters; an empty sequence
\* also stands for a field the request does not carry (both are falsy)
RECURSIVE lstrip(_)
lstrip(s) == IF s # <<>> /\ Head(s) = " " THEN lstrip(Tail(s)) ELSE s

RECURSIVE rstrip(_)
rstrip(s) ==
    IF s # <<>> /\ s[Len(s)] = " " THEN rstrip(SubSeq(s, 1, Len(s) - 1))
    ELSE s

strip(s) == rstrip(lstrip(s))

PAYMENT_METHOD_CHOICES ==
    {"mpesa", "credit_card", "bank_transfer", "cash_on_delivery"}

\* `not request.data.get(field)` over required_fields
required_fields_missing(data) ==
    \/ data.payment_method = ""
    \/ data.shipping_address = <<>>
    \/ data.shipping_city = <<>>
    \/ data.shipping_phone = <<>>

\* a variant that does not trim the text fields
CartToOrderSerializer_is_valid_NoTrim(data) ==
    /\ data.payment_method \in PAYMENT_METHOD_CHOICES
    /\ data.shipping_address # <<>>
    /\ data.shipping_city # <<>>
    /\ data.shipping_phone # <<>>

\* CartToOrderSerializer.is_valid
CartToOrderSerializer_is_valid(data) ==
    /\ data.payment_method \in PAYMENT_METHOD_CHOICES
    /\ strip(data.shipping_address) # <<>>
    /\ strip(data.shipping_city) # <<>>
    /\ strip(data.shipping_phone) # <<>>

\* serializer.errors, reduced to the first field it names
CartToOrderSerializer_errors(data) ==
    IF data.payment_method \notin PAYMENT_METHOD_CHOICES
    THEN "payment_method"
    ELSE IF strip(data.shipping_address) = <<>> THEN "shipping_address"
    ELSE IF strip(data.shipping_city) = <<>> THEN "shipping_city"
    ELSE "shipping_phone"

\* a datastore error injected into the checkout transaction: at the creation
\* of the order, at the creation of the item or the stock update of the k-th
\* line, or at the clearing of the cart
NoFault == [step |-> "none", line |-> 0]

Faults(cart) ==
    {NoFault, [step |-> "order", line |-> 0], [step |-> "clear", line |-> 0]}
      \cup [step : {"item", "stock"}, line : 1..Len(cart)]

\* the loop of convert_cart_to_order over the lines of the cart; tx is the
\* database as the transaction sees it, tx.raised that an exception left the
\* block
RECURSIVE CheckoutLines(_, _, _, _, _)
CheckoutLines(lines, k, order_id, fault, tx) ==
    IF tx.raised \/ lines = <<>> THEN tx
    ELSE
      LET cart_item == Head(lines)
          product_id == cart_item.product_id
          order_item == NewOrderItem(order_id, cart_item.vendor, product_id,
                                     cart_item.unit_price,
                                     cart_item.quantity)
          t1 == IF \/ fault = [step |-> "item", line |-> k]
                   \/ OrderItemSaveRaises(order_item)
                THEN [tx EXCEPT !.raised = TRUE]
                ELSE [tx EXCEPT !.orderItems =
                        Append(@, OrderItemSave(order_item))]
          t2 == IF t1.raised \/ ~ProductExists(t1.products, product_id)
                THEN t1
                ELSE
                  LET product == t1.products[product_id]
                      stock_quantity ==
                          product.stock_quantity - cart_item.quantity
                      saved == ProductSave(
                          [product EXCEPT
                             !.stock_quantity = stock_quantity,
                             !.in_stock = IF stock_quantity <= 0
                                          THEN FALSE ELSE @])
                  IN  \* PositiveIntegerField: a negative value violates the
                      \* column's CHECK constraint and save() raises
                      IF stock_quantity < 0
                           \/ fault = [step |-> "stock", line |-> k]
                      THEN [t1 EXCEPT !.raised = TRUE]
                      ELSE [t1 EXCEPT !.products[product_id] = saved]
      IN  CheckoutLines(Tail(lines), k + 1, order_id, fault, t2)

\* the body of the `with transaction.atomic()` block
CheckoutBody(user, fault, tx) ==
    LET cart == tx.carts[user]
        order_id == Len(tx.orders) + 1
        order == Order_objects_create(user, CartSubtotal(cart) * 100,
                     CartSubtotal(cart) * TAX_RATE, 0, 0,
                     CartTotalAmount(cart))
        t1 == IF fault.step = "order"
              THEN [tx EXCEPT !.raised = TRUE]
              ELSE [tx EXCEPT !.orders = Append(@, order)]
        t2 == CheckoutLines(CartItemsAll(cart), 1, order_id, fault, t1)
    IN  IF t2.raised THEN t2
        ELSE IF fault.step = "clear" THEN [t2 EXCEPT !.raised = TRUE]
        ELSE [t2 EXCEPT !.carts[user] = <<>>]

\* a variant without rollback
atomic_NoRollback(before, after) == after

\* transaction.atomic(): an exception leaving the block rolls back every
\* write made inside it
atomic(before, after) ==
    IF after.raised THEN [before EXCEPT !.raised = TRUE] ELSE after

\* POST /api/cart/checkout/
convert_cart_to_order(user, data, fault) ==
    LET op == "convert_cart_to_order"
        Reply(code, error) ==
            /\ last' = Response(op, user, NoOrder, "", code, error)
            /\ UNCHANGED <<orders, orderItems, history, refunds, products,
                           carts, clock, patched, inflight, savedItems>>
    IN
    IF carts[user] = <<>> THEN Reply(400, "Cart is empty")
    ELSE IF required_fields_missing(data) THEN Reply(400, "field is required")
    ELSE IF ~CartToOrderSerializer_is_valid(data)
    THEN Reply(400, CartToOrderSerializer_errors(data))
    ELSE
      LET before == [orders |-> orders, orderItems |-> orderItems,
                     products |-> products, carts |-> carts,
                     raised |-> FALSE]
          after == atomic(before, CheckoutBody(user, fault, before))
      IN  /\ Len(after.orders) <= MaxOrders
          /\ orders' = after.orders
          /\ orderItems' = after.orderItems
          /\ products' = after.products
          /\ carts' = after.carts
          /\ last' = IF after.raised
                     THEN Response(op, user, NoOrder, "", 500,
                                   "Failed to create order")
                     ELSE Response(op, user, Len(after.orders), "", 201, "")
          /\ UNCHANGED <<history, refunds, clock, patched, inflight,
                         savedItems>>

\* Order numbers (orders/models.py).  An order_number "ORD-YYYY-MM-<n>" is kept
\* as its base (the month, counted by the clock) and the decimal digits of n;
\* rows carry the field only in the specification of the numbering.

\* f"{new_number}": the decimal digits of a number
RECURSIVE Digits(_)
Digits(n) == IF n < 10 THEN <<n>> ELSE Append(Digits(n \div 10), n % 10)

\* int(...) of a string of digits
RECURSIVE Number(_)
Number(digits) ==
    IF digits = <<>> THEN 0
    ELSE Number(SubSeq(digits, 1, Len(digits) - 1)) * 10 + digits[Len(digits)]

\* a < b in the ordering of strings the database sorts order_number by
RECURSIVE StrLess(_, _)
StrLess(a, b) ==
    IF a = <<>> THEN b # <<>>
    ELSE IF b = <<>> THEN FALSE
    ELSE IF Head(a) # Head(b) THEN Head(a) < Head(b)
    ELSE StrLess(Tail(a), Tail(b))

FIRST_ORDER_NUMBER == 1000

\* Order.objects.filter(order_number__startswith=base)
\* .order_by('-order_number').first() over the rows lo..hi; 0 if none
RECURSIVE last_order(_, _, _, _)
last_order(rows, base, lo, hi) ==
    IF lo > hi THEN 0
    ELSE IF lo = hi
    THEN (IF rows[lo].order_number.base = base THEN lo ELSE 0)
    ELSE LET mid == (lo + hi) \div 2
             l == last_order(rows, base, lo, mid)
             r == last_order(rows, base, mid + 1, hi)
         IN  IF l = 0 THEN r
             ELSE IF r = 0 THEN l
             ELSE IF StrLess(rows[l].order_number.suffix,
                             rows[r].order_number.suffix)
             THEN r ELSE l

\* Order.generate_order_number at the month `base`
generate_order_number(rows, base) ==
    LET found == last_order(rows, base, 1, Len(rows))
    IN  IF found # 0
        THEN [base |-> base,
              suffix |-> Digits(Number(rows[found].order_number.suffix) + 1)]
        ELSE [base |-> base, suffix |-> Digits(FIRST_ORDER_NUMBER)]

\* the row of an order with its order_number
NumberedOrder(order, order_number) ==
    [f \in DOMAIN order \cup {"order_number"} |->
       IF f = "order_number" THEN order_number ELSE order[f]]

\* order_number is unique=True: the INSERT of a number already in the table
\* raises IntegrityError
NumberTaken(rows, order_number) ==
    \E i \in 1..Len(rows) : rows[i].order_number = order_number

\* The same checkout as the database runs it next to other requests, under
\* READ COMMITTED and without select_for_update: the statements of the
\* `with transaction.atomic()` block are separate steps, a read sees the
\* committed rows, and the rows the block writes become visible at COMMIT.

\* no checkout of the user is in flight
NoTx == [pc |-> "idle", lines |-> <<>>, k |-> 0, read |-> <<>>, writes |-> <<>>]

\* the transaction has an uncommitted UPDATE of the product row
HasWritten(tx, product_id) ==
    \E i \in 1..Len(tx.writes) : tx.writes[i].product_id = product_id

\* the row its latest UPDATE of the product wrote
WrittenRow(tx, product_id) ==
    LET i == CHOOSE j \in 1..Len(tx.writes) :
                /\ tx.writes[j].product_id = product_id
                /\ \A l \in (j + 1)..Len(tx.writes) :
                      tx.writes[l].product_id # product_id
    IN  tx.writes[i].row

\* the loop moves to the next line of the cart, or leaves the loop
NextLine(tx) ==
    IF tx.k < Len(tx.lines)
    THEN [tx EXCEPT !.pc = "item", !.k = @ + 1, !.read = <<>>]
    ELSE [tx EXCEPT !.pc = "commit", !.read = <<>>]

\* the `product` object of the loop: what Product.objects.get returned, kept
\* in memory until product.save()
product(read, current) == read

\* the request up to the entry of the atomic block and the query of the loop
begin_checkout(user, data) ==
    LET op == "convert_cart_to_order"
        Reply(code, error) ==
            /\ last' = Response(op, user, NoOrder, "", code, error)
            /\ UNCHANGED <<orders, orderItems, history, refunds, products,
                           carts, clock, patched, inflight, savedItems>>
    IN
    /\ inflight[user].pc = "idle"
    /\ IF carts[user] = <<>> THEN Reply(400, "Cart is empty")
       ELSE IF required_fields_missing(data)
       THEN Reply(400, "field is required")
       ELSE IF ~CartToOrderSerializer_is_valid(data)
       THEN Reply(400, CartToOrderSerializer_errors(data))
       ELSE /\ inflight' = [inflight EXCEPT ![user] =
                   [pc |-> "item", lines |-> CartItemsAll(carts[user]),
                    k |-> 1, read |-> <<>>, writes |-> <<>>]]
            /\ UNCHANGED <<orders, orderItems, history, refunds, products,
                           carts, clock, patched, last, savedItems>>

\* OrderItem.objects.create of the current line; an exception leaves the
\* atomic block, which rolls back, and the view answers 500
create_order_item(user) ==
    LET tx == inflight[user]
    IN  /\ tx.pc = "item"
        /\ LET cart_item == tx.lines[tx.k]
               order_item == NewOrderItem(NoOrder, cart_item.vendor,
                                          cart_item.product_id,
                                          cart_item.unit_price,
                                          cart_item.quantity)
           IN  IF OrderItemSaveRaises(order_item)
               THEN /\ inflight' = [inflight EXCEPT ![user] = NoTx]
                    /\ last' = Response("convert_cart_to_order", user,
                                        NoOrder, "", 500,
                                        "Failed to create order")
               ELSE /\ inflight' = [inflight EXCEPT ![user].pc = "read"]
                    /\ UNCHANGED last
        /\ UNCHANGED <<orders, orderItems, history, refunds, products,
                       carts, clock, patched, savedItems>>

\* Product.objects.get(id=cart_item.product_id) of the current line
read_product(user) ==
    LET tx == inflight[user]
    IN  /\ tx.pc = "read"
        /\ LET product_id == tx.lines[tx.k].product_id
           IN  inflight' = [inflight EXCEPT ![user] =
                   IF ProductExists(products, product_id)
                   THEN [tx EXCEPT !.pc = "write",
                                   !.read = <<products[product_id]>>]
                   ELSE NextLine(tx)]
        /\ UNCHANGED <<orders, orderItems, history, refunds, products,
                       carts, clock, patched, last, savedItems>>

\* product.stock_quantity -= cart_item.quantity ... product.save(); the
\* UPDATE waits while another transaction holds an uncommitted write of the
\* row, and a negative stock violates the column's CHECK constraint, which
\* rolls the transaction back
save_product(user) ==
    LET tx == inflight[user]
    IN  /\ tx.pc = "write"
        /\ LET cart_item == tx.lines[tx.k]
               product_id == cart_item.product_id
               row == product(tx.read[1], products[product_id])
               stock_quantity == row.stock_quantity - cart_item.quantity
               saved == ProductSave(
                   [row EXCEPT !.stock_quantity = stock_quantity,
                               !.in_stock = IF stock_quantity <= 0
                                            THEN FALSE ELSE @])
           IN  /\ \A other \in Users \ {user} :
                     ~HasWritten(inflight[other], product_id)
               /\ IF stock_quantity < 0
                  THEN /\ inflight' = [inflight EXCEPT ![user] = NoTx]
                       /\ last' = Response("convert_cart_to_order", user,
                                           NoOrder, "", 500,
                                           "Failed to create order")
                  ELSE /\ inflight' = [inflight EXCEPT ![user] =
                              NextLine([tx EXCEPT !.writes =
                                  Append(@, [product_id |-> product_id,
                                             row |-> saved])])]
                       /\ UNCHANGED last
        /\ UNCHANGED <<orders, orderItems, history, refunds, products,
                       carts, clock, patched, savedItems>>

\* cart.clear(), the 201 response and the COMMIT of the block: the order, its
\* items and the product rows written become visible
commit_checkout(user) ==
    LET tx == inflight[user]
        order_id == Len(orders) + 1
    IN  /\ tx.pc = "commit"
        /\ order_id <= MaxOrders
        /\ orders' = Append(orders,
               Order_objects_create(user, CartSubtotal(tx.lines) * 100,
                   CartSubtotal(tx.lines) * TAX_RATE, 0, 0,
                   CartTotalAmount(tx.lines)))
        /\ orderItems' = orderItems \o
               [i \in 1..Len(tx.lines) |->
                  OrderItemSave(NewOrderItem(order_id, tx.lines[i].vendor,
                                             tx.lines[i].product_id,
                                             tx.lines[i].unit_price,
                                             tx.lines[i].quantity))]
        /\ products' = [product_id \in 1..Len(products) |->
               IF HasWritten(tx, product_id)
               THEN WrittenRow(tx, product_id)
               ELSE products[product_id]]
        /\ carts' = [carts EXCEPT ![user] = <<>>]
        /\ inflight' = [inflight EXCEPT ![user] = NoTx]
        /\ last' = Response("convert_cart_to_order", user, order_id, "",
                            201, "")
        /\ UNCHANGED <<history, refunds, clock, patched, savedItems>>

-----------------------------------------------------------------------------
(* Initial state: one order placed by checkout, nothing else yet *)

PlacedOrder(customer, subtotal) ==
    Order_objects_create(customer, subtotal * 100, subtotal * TAX_RATE, 0, 0,
                         subtotal * 100 + subtotal * TAX_RATE)

Init ==
    /\ orders = <<PlacedOrder("customer1", 20000)>>
    /\ orderItems = <<OrderItemRow(1, "vendor1", 1, 10000, 2)>>
    /\ history = [o \in 1..MaxOrders |-> <<>>]
    /\ refunds = <<>>
    /\ products = <<>>
    /\ carts = [u \in Users |-> <<>>]
    /\ clock = 0
    /\ patched = 0
    /\ last = NoRequest
    /\ inflight = [u \in Users |-> NoTx]
    /\ savedItems = [u \in Users |-> <<>>]

\* Requests enumerated for the order endpoints: every user with every status
\* (valid or not) on every existing order, and one request per endpoint on an
\* id that matches no order.  A tracking number accompanies only a request
\* to ship.
StatusInputs == ORDER_STATUS_CHOICES \cup {"bogus"}

TrackingInputs(new_status) ==
    IF new_status = "shipped" THEN {NoTracking, "TRK1"} ELSE {NoTracking}

\* the orders a bulk update saves, the only ones whose save can raise
Saved(user, order_ids, new_status) ==
    {id \in order_ids \cap OrderIds :
        /\ new_status \in ORDER_STATUS_CHOICES
        /\ can_update_status(orders[id].status, new_status)
        /\ role[user] = "vendor" => ItemsOfVendorExist(id, user)}

RefundStatusInputs == {"approved", "rejected", "completed", "requested"}

RefundAmountInputs == {10000}

Next ==
    \/ \E user \in Actors, order_id \in OrderIds, new_status \in StatusInputs :
          \E tracking_number \in TrackingInputs(new_status) :
             Idle /\ update_order_status(user, order_id, new_status,
                                         tracking_number)
    \/ Idle /\ update_order_status("admin1", MissingId, "confirmed", NoTracking)
    \/ \E user \in Actors, pk \in OrderIds,
          data_status \in StatusInputs \cup {NoStatus} :
          Idle /\ order_detail_update(user, pk, data_status)
    \/ Idle /\ order_detail_update("admin1", MissingId, "confirmed")
    \/ \E user \in Actors, pk \in OrderIds :
          Idle /\ order_detail_destroy(user, pk)
    \/ Idle /\ order_detail_destroy("admin1", MissingId)
    \/ \E user \in Actors, order_ids \in SUBSET (OrderIds \cup {MissingId}),
          new_status \in StatusInputs \cup {NoStatus} :
          \E raising \in SUBSET Saved(user, order_ids, new_status) :
             Idle /\ bulk_status_update(user, order_ids, new_status, raising)
    \/ \E user \in Actors, order_id \in OrderIds,
          refund_amount \in RefundAmountInputs :
          Idle /\ request_refund(user, order_id, refund_amount, 0)
    \/ \E refund_amount \in RefundAmountInputs :
          Idle /\ request_refund("customer1", MissingId, refund_amount, 0)
    \/ \E user \in {"admin1", "customer1"},
          refund_id \in 1..(Len(refunds) + 1),
          new_status \in RefundStatusInputs :
          Idle /\ process_refund(user, refund_id, new_status)
    \/ respond

Spec == Init /\ [][Next]_vars

-----------------------------------------------------------------------------
(* The order of the lifecycle under every request of update_order_status,
   with fewer requests of the other endpoints than Spec enumerates *)

StatusNext ==
    \/ \E user \in Actors, order_id \in OrderIds, new_status \in StatusInputs :
          \E tracking_number \in TrackingInputs(new_status) :
             Idle /\ update_order_status(user, order_id, new_status,
                                         tracking_number)
    \/ Idle /\ update_order_status("admin1", MissingId, "confirmed", NoTracking)
    \/ \E user \in {"admin1", "vendor1", "vendor2"},
          order_ids \in {{1}, {1, MissingId}},
          new_status \in ORDER_STATUS_CHOICES :
          Idle /\ bulk_status_update(user, order_ids, new_status, {})
    \/ \E data_status \in ORDER_STATUS_CHOICES :
          Idle /\ order_detail_update("admin1", 1, data_status)
    \/ \E user \in {"customer1", "vendor2"} :
          Idle /\ order_detail_destroy(user, 1)
    \/ \E refund_amount \in RefundAmountInputs :
          Idle /\ request_refund("customer1", 1, refund_amount, 0)
    \/ \E refund_id \in 1..Len(refunds) :
          Idle /\ process_refund("admin1", refund_id, "completed")
    \/ respond

StatusSpec == Init /\ [][StatusNext]_vars

-----------------------------------------------------------------------------
(* Two orders of different customers and vendors under bulk updates *)

BulkInit ==
    /\ orders = <<PlacedOrder("customer1", 20000),
                  PlacedOrder("customer2", 5000)>>
    /\ orderItems = <<OrderItemRow(1, "vendor1", 1, 10000, 2),
                      OrderItemRow(2, "vendor2", 2, 5000, 1)>>
    /\ history = [o \in 1..MaxOrders |-> <<>>]
    /\ refunds = <<>>
    /\ products = <<>>
    /\ carts = [u \in Users |-> <<>>]
    /\ clock = 0
    /\ patched = 0
    /\ last = NoRequest
    /\ inflight = [u \in Users |-> NoTx]
    /\ savedItems = [u \in Users |-> <<>>]

BulkActors == {"admin1", "vendor1", "customer1"}

BulkNext ==
    \/ \E user \in BulkActors, order_ids \in SUBSET (OrderIds \cup {MissingId}),
          new_status \in StatusInputs \cup {NoStatus} :
          \E raising \in SUBSET Saved(user, order_ids, new_status) :
             Idle /\ bulk_status_update(user, order_ids, new_status, raising)
    \/ respond

BulkSpec == BulkInit /\ [][BulkNext]_vars

-----------------------------------------------------------------------------
(* Two customers shopping from a catalogue of two products *)

NewProduct(vendor, price, stock_quantity) ==
    ProductSave([vendor |-> vendor, price |-> price,
                 stock_quantity |-> stock_quantity,
                 in_stock |-> TRUE, is_active |-> TRUE, deleted |-> FALSE])

CheckoutInit ==
    /\ orders = <<>>
    /\ orderItems = <<>>
    /\ history = [o \in 1..MaxOrders |-> <<>>]
    /\ refunds = <<>>
    /\ products = <<NewProduct("vendor1", 1999, 2),
                    NewProduct("vendor2", 333, 1)>>
    /\ carts = [u \in Users |-> <<>>]
    /\ clock = 0
    /\ patched = 0
    /\ last = NoRequest
    /\ inflight = [u \in Users |-> NoTx]
    /\ savedItems = [u \in Users |-> <<>>]

Customers == {"customer1", "customer2"}

ValidData ==
    [payment_method |-> "mpesa", shipping_address |-> <<"a">>,
     shipping_city |-> <<"c">>, shipping_phone |-> <<"7">>]

\* checkout requests: complete, padded with blanks, and with one field
\* empty, blank or not among the choices
CheckoutInputs ==
    {ValidData,
     [ValidData EXCEPT !.shipping_address = <<" ", "a", " ">>],
     [ValidData EXCEPT !.shipping_address = <<>>],
     [ValidData EXCEPT !.shipping_address = <<" ", " ">>],
     [ValidData EXCEPT !.shipping_phone = <<>>],
     [ValidData EXCEPT !.shipping_phone = <<" ">>],
     [ValidData EXCEPT !.shipping_city = <<" ">>],
     [ValidData EXCEPT !.payment_method = ""],
     [ValidData EXCEPT !.payment_method = "paypal"]}

PriceInputs == {0, 2500}

QuantityInputs == {0, 1, 2}

CheckoutNext ==
    \/ \E user \in Customers, product_id \in 1..(Len(products) + 1),
          quantity \in QuantityInputs :
          Idle /\ add_to_cart(user, product_id, quantity)
    \/ \E user \in {"admin1", "vendor2"}, price \in PriceInputs :
          Idle /\ update_product(user, 1, price)
    \/ \E user \in Customers, data \in CheckoutInputs :
          \E fault \in Faults(carts[user]) :
             Idle /\ convert_cart_to_order(user, data, fault)
    \/ respond

CheckoutSpec == CheckoutInit /\ [][CheckoutNext]_vars

-----------------------------------------------------------------------------
(* One product priced 100.00, bought by two customers *)

EndToEndInit ==
    /\ orders = <<>>
    /\ orderItems = <<>>
    /\ history = [o \in 1..MaxOrders |-> <<>>]
    /\ refunds = <<>>
    /\ products = <<NewProduct("vendor1", 10000, 4)>>
    /\ carts = [u \in Users |-> <<>>]
    /\ clock = 0
    /\ patched = 0
    /\ last = NoRequest
    /\ inflight = [u \in Users |-> NoTx]
    /\ savedItems = [u \in Users |-> <<>>]

EndToEndNext ==
    \/ \E user \in Customers, quantity \in {1, 2} :
          Idle /\ add_to_cart(user, 1, quantity)
    \/ \E user \in Customers :
          \E fault \in Faults(carts[user]) :
             Idle /\ convert_cart_to_order(user, ValidData, fault)
    \/ respond

EndToEndSpec == EndToEndInit /\ [][EndToEndNext]_vars

-----------------------------------------------------------------------------
(* A product that is deactivated or deleted while it sits in carts *)

CatalogueInit ==
    /\ orders = <<>>
    /\ orderItems = <<>>
    /\ history = [o \in 1..MaxOrders |-> <<>>]
    /\ refunds = <<>>
    /\ products = <<NewProduct("vendor1", 1999, 2),
                    NewProduct("vendor2", 333, 1)>>
    /\ carts = [u \in Users |-> <<>>]
    /\ clock = 0
    /\ patched = 0
    /\ last = NoRequest
    /\ inflight = [u \in Users |-> NoTx]
    /\ savedItems = [u \in Users |-> <<>>]

CatalogueNext ==
    \/ \E user \in Customers, product_id \in 1..Len(products) :
          Idle /\ add_to_cart(user, product_id, 1)
    \/ \E user \in {"admin1", "vendor2"}, is_active \in BOOLEAN :
          Idle /\ update_product_active(user, 1, is_active)
    \/ \E user \in {"admin1", "vendor1"}, product_id \in 1..Len(products) :
          Idle /\ delete_product(user, product_id)
    \/ \E user \in Customers :
          Idle /\ convert_cart_to_order(user, ValidData, NoFault)
    \/ respond

CatalogueSpec == CatalogueInit /\ [][CatalogueNext]_vars

-----------------------------------------------------------------------------
(* Two customers check out the last unit of a product at the same time *)

ConcurrentInit ==
    /\ orders = <<>>
    /\ orderItems = <<>>
    /\ history = [o \in 1..MaxOrders |-> <<>>]
    /\ refunds = <<>>
    /\ products = <<NewProduct("vendor1", 10000, 1), NewProduct("vendor2", 333, 1)>>
    /\ carts = [u \in Users |-> <<>>]
    /\ clock = 0
    /\ patched = 0
    /\ last = NoRequest
    /\ inflight = [u \in Users |-> NoTx]
    /\ savedItems = [u \in Users |-> <<>>]

ConcurrentNext ==
    \/ \E user \in Customers, product_id \in 1..Len(products) :
          Idle /\ inflight[user].pc = "idle" /\ add_to_cart(user, product_id, 1)
    \/ \E user \in Customers : begin_checkout(user, ValidData)
    \/ \E user \in Customers : create_order_item(user)
    \/ respond

ConcurrentSpec == ConcurrentInit /\ [][ConcurrentNext]_vars

-----------------------------------------------------------------------------
(* Order numbers: orders created by two customers, by turns or at once, *)
(* in a month that is empty or already holds the orders 1000..9998      *)

\* Order.save up to the call of generate_order_number, in the month the
\* clock shows
Order_save_generate(user) ==
    /\ inflight[user].pc = "idle"
    /\ inflight' = [inflight EXCEPT ![user] =
           [pc |-> "insert",
            order_number |-> generate_order_number(orders, clock)]]
    /\ UNCHANGED <<orders, orderItems, history, refunds, products, carts,
                   clock, patched, last, savedItems>>

\* super().save(): the INSERT of the order under the number generated
Order_save_insert(user, created) ==
    LET tx == inflight[user]
    IN  /\ tx.pc = "insert"
        /\ inflight' = [inflight EXCEPT ![user] = NoTx]
        /\ IF NumberTaken(orders, tx.order_number)
           THEN /\ last' = Response("convert_cart_to_order", user, NoOrder,
                                    "", 500, "Failed to create order")
                /\ UNCHANGED orders
           ELSE /\ created < MaxOrders
                /\ orders' = Append(orders,
                       NumberedOrder(PlacedOrder(user, 10000),
                                     tx.order_number))
                /\ last' = Response("convert_cart_to_order", user,
                                    Len(orders) + 1, "", 201, "")
        /\ UNCHANGED <<orderItems, history, refunds, products, carts, clock,
                       patched, savedItems>>

\* datetime.datetime.now() moves into the next month
next_month ==
    /\ clock < MaxClock
    /\ clock' = clock + 1
    /\ UNCHANGED <<orders, orderItems, history, refunds, products, carts,
                   patched, last, inflight, savedItems>>

\* the orders of month 0 numbered first..last, as a run of checkouts leaves
\* them
OrdersNumbered(first, last_number) ==
    [i \in 1..(last_number - first + 1) |->
       NumberedOrder(PlacedOrder("customer1", 10000),
                     [base |-> 0, suffix |-> Digits(first + i - 1)])]

SeedNumbers == {FIRST_ORDER_NUMBER - 1, 9998}

NumberInit ==
    /\ \E last_number \in SeedNumbers :
          orders = OrdersNumbered(FIRST_ORDER_NUMBER, last_number)
    /\ orderItems = <<>>
    /\ history = [o \in 1..MaxOrders |-> <<>>]
    /\ refunds = <<>>
    /\ products = <<>>
    /\ carts = [u \in Users |-> <<>>]
    /\ clock = 0
    /\ patched = 0
    /\ last = NoRequest
    /\ inflight = [u \in Users |-> NoTx]
    /\ savedItems = [u \in Users |-> <<>>]

\* orders created since the initial state in a table that began with `seed`
\* rows
CreatedSince ==
    IF Len(orders) >= 9998 - FIRST_ORDER_NUMBER + 1
    THEN Len(orders) - (9998 - FIRST_ORDER_NUMBER + 1)
    ELSE Len(orders)

NumberNext ==
    \/ \E user \in Customers : Order_save_generate(user)
    \/ \E user \in Customers : Order_save_insert(user, CreatedSince)
    \/ next_month
    \/ respond

NumberSpec == NumberInit /\ [][NumberNext]_vars

-----------------------------------------------------------------------------
(* OrderItem.save over prices, quantities and commission rates *)

MaxItems == 2

\* OrderItem.objects.create(...): the instance is built from the values
\* given, `supplied` standing for the three derived fields, and saved
OrderItem_objects_create(vendor, unit_price, quantity, commission_rate, supplied) ==
    LET order_item ==
            [NewOrderItem(1, vendor, 1, unit_price, quantity)
               EXCEPT !.commission_rate = commission_rate,
                      !.total_price = supplied,
                      !.platform_commission = supplied,
                      !.vendor_earnings = supplied]
    IN  /\ Len(orderItems) < MaxItems
        /\ orderItems' = IF OrderItemSaveRaises(order_item)
                         THEN orderItems
                         ELSE Append(orderItems, OrderItemSave(order_item))
        /\ UNCHANGED <<orders, history, refunds, products, carts, clock,
                       patched, last, inflight, savedItems>>

\* a stored OrderItem is loaded, its quantity is changed and it is saved
OrderItem_save(i, quantity) ==
    /\ i \in 1..Len(orderItems)
    /\ orderItems' = [orderItems EXCEPT ![i] =
           OrderItemSave([@ EXCEPT !.quantity = quantity])]
    /\ UNCHANGED <<orders, history, refunds, products, carts, clock,
                   patched, last, inflight, savedItems>>

ItemInit ==
    /\ orders = <<PlacedOrder("customer1", 0)>>
    /\ orderItems = <<>>
    /\ history = [o \in 1..MaxOrders |-> <<>>]
    /\ refunds = <<>>
    /\ products = <<>>
    /\ carts = [u \in Users |-> <<>>]
    /\ clock = 0
    /\ patched = 0
    /\ last = NoRequest
    /\ inflight = [u \in Users |-> NoTx]
    /\ savedItems = [u \in Users |-> <<>>]

UnitPriceInputs == {1, 333, 10000}

ItemQuantityInputs == {1, 2}

CommissionRateInputs ==
    {DEFAULT_COMMISSION_RATE, Decimal(0), Decimal(1500), Decimal(5000),
     Decimal(10000)}

SuppliedInputs == {0, 777}

ItemNext ==
    \/ \E unit_price \in UnitPriceInputs, quantity \in ItemQuantityInputs,
          commission_rate \in CommissionRateInputs,
          supplied \in SuppliedInputs :
          OrderItem_objects_create("vendor1", unit_price, quantity,
                                   commission_rate, supplied)
    \/ \E i \in 1..MaxItems, quantity \in ItemQuantityInputs :
          OrderItem_save(i, quantity)

ItemSpec == ItemInit /\ [][ItemNext]_vars

-----------------------------------------------------------------------------
(* Refunds: two orders, the first in any status, the second delivered *)

RefundInit ==
    /\ \E status \in ORDER_STATUS_CHOICES :
          orders = <<[PlacedOrder("customer1", 20000) EXCEPT !.status = status],
                     [PlacedOrder("customer2", 5000)
                        EXCEPT !.status = "delivered"]>>
    /\ orderItems = <<OrderItemRow(1, "vendor1", 1, 10000, 2),
                      OrderItemRow(2, "vendor2", 2, 5000, 1)>>
    /\ history = [o \in 1..MaxOrders |-> <<>>]
    /\ refunds = <<>>
    /\ products = <<>>
    /\ carts = [u \in Users |-> <<>>]
    /\ clock = 0
    /\ patched = 0
    /\ last = NoRequest
    /\ inflight = [u \in Users |-> NoTx]
    /\ savedItems = [u \in Users |-> <<>>]

ProcessingFeeInputs == {0, 1000}

EditedAmountInputs == {10000, 5000}

RefundNext ==
    \/ \E user \in {"customer1", "customer2", "vendor1"},
          order_id \in {1, 2, MissingId},
          refund_amount \in RefundAmountInputs,
          processing_fee \in ProcessingFeeInputs :
          Idle /\ request_refund(user, order_id, refund_amount,
                                 processing_fee)
    \/ \E refund_id \in 1..Len(refunds),
          refund_amount \in EditedAmountInputs, saved \in BOOLEAN :
          edit_refund_amount(refund_id, refund_amount, saved)
    \/ \E user \in {"admin1", "vendor1", "customer1"},
          refund_id \in 1..(Len(refunds) + 1),
          new_status \in RefundStatusInputs :
          Idle /\ process_refund(user, refund_id, new_status)
    \/ respond

RefundSpec == RefundInit /\ [][RefundNext]_vars

-----------------------------------------------------------------------------
(* The lines of the carts of a customer and of an anonymous session *)

CartInit ==
    /\ orders = <<>>
    /\ orderItems = <<>>
    /\ history = [o \in 1..MaxOrders |-> <<>>]
    /\ refunds = <<>>
    /\ products = <<NewProduct("vendor1", 1000, 5), NewProduct("vendor2", 333, 2)>>
    /\ carts = [u \in Users \cup Sessions |-> <<>>]
    /\ clock = 0
    /\ patched = 0
    /\ last = NoRequest
    /\ inflight = [u \in Users |-> NoTx]
    /\ savedItems = [u \in Users |-> <<>>]

CartQuantityInputs == {2, 3}

\* the item lists of quick-add requests: one item, or two items that may
\* name the same product
QuickAddInputs ==
    LET item == [product_id : 1..2, quantity : {2}]
    IN  {<<>>} \cup {<<a>> : a \in item} \cup {<<a, b>> : a, b \in item}

CartNext ==
    \/ \E owner \in {"customer1"} \cup Sessions, product_id \in 1..3,
          quantity \in CartQuantityInputs :
          Idle /\ add_to_cart(owner, product_id, quantity)
    \/ \E items \in QuickAddInputs :
          Idle /\ quick_add_to_cart("customer1", items)
    \/ \E item_id \in 1..2, quantity \in CartQuantityInputs :
          Idle /\ update_cart_item("customer1", item_id, quantity)
    \/ \E item_id \in 1..2 : Idle /\ remove_cart_item("customer1", item_id)
    \/ \E owner \in {"customer1"} \cup Sessions : Idle /\ clear_cart(owner)
    \/ \E item_id \in 1..2 : Idle /\ save_for_later("customer1", item_id)
    \/ \E saved_item_id \in 1..2, quantity \in CartQuantityInputs :
          Idle /\ move_to_cart("customer1", saved_item_id, quantity)
    \/ \E session \in Sessions : Idle /\ merge_carts("customer1", session)
    \/ respond

CartSpec == CartInit /\ [][CartNext]_vars

-----------------------------------------------------------------------------
(* Cart quantities while the stock of the catalogue changes *)

StockInit ==
    /\ orders = <<>>
    /\ orderItems = <<>>
    /\ history = [o \in 1..MaxOrders |-> <<>>]
    /\ refunds = <<>>
    /\ products = <<NewProduct("vendor1", 1000, 3), NewProduct("vendor2", 333, 2)>>
    /\ carts = [u \in Users |-> <<>>]
    /\ clock = 0
    /\ patched = 0
    /\ last = NoRequest
    /\ inflight = [u \in Users |-> NoTx]
    /\ savedItems = [u \in Users |-> <<>>]

StockInputs == {0, 1, 3}

StockQuantityInputs == {1, 2, 4}

StockNext ==
    \/ \E product_id \in 1..3, quantity \in StockQuantityInputs :
          Idle /\ add_to_cart("customer1", product_id, quantity)
    \/ \E item_id \in 1..2, quantity \in StockQuantityInputs :
          Idle /\ update_cart_item("customer1", item_id, quantity)
    \/ \E stock_quantity \in StockInputs :
          Idle /\ update_product_stock("vendor1", 1, stock_quantity)
    \/ \E is_active \in BOOLEAN :
          Idle /\ update_product_active("admin1", 2, is_active)
    \/ \E product_id \in 1..2 : Idle /\ delete_product("admin1", product_id)
    \/ respond

StockSpec == StockInit /\ [][StockNext]_vars

-----------------------------------------------------------------------------
(* Saved items moved back to the cart while prices change *)

MoveInit ==
    /\ orders = <<>>
    /\ orderItems = <<>>
    /\ history = [o \in 1..MaxOrders |-> <<>>]
    /\ refunds = <<>>
    /\ products = <<NewProduct("vendor1", 1000, 3), NewProduct("vendor2", 333, 2)>>
    /\ carts = [u \in Users |-> <<>>]
    /\ clock = 0
    /\ patched = 0
    /\ last = NoRequest
    /\ inflight = [u \in Users |-> NoTx]
    /\ savedItems = [u \in Users |-> <<>>]

MovePriceInputs == {1000, 1200}

MoveQuantityInputs == {1, 2}

MoveNext ==
    \/ \E product_id \in 1..2 :
          Idle /\ add_to_cart("customer1", product_id, 1)
    \/ \E item_id \in 1..2 : Idle /\ save_for_later("customer1", item_id)
    \/ \E price \in MovePriceInputs :
          Idle /\ update_product("vendor1", 1, price)
    \/ \E is_active \in BOOLEAN :
          Idle /\ update_product_active("admin1", 2, is_active)
    \/ \E saved_item_id \in 1..2, quantity \in MoveQuantityInputs :
          Idle /\ move_to_cart("customer1", saved_item_id, quantity)
    \/ respond

MoveSpec == MoveInit /\ [][MoveNext]_vars

-----------------------------------------------------------------------------
(* The history of an order under status changes, cancellations, notes and
   refunds *)

NoteInputs == {"", "call the customer"}

HistoryNext ==
    \/ \E new_status \in {"confirmed", "processing", "delivered", "shipped"} :
          Idle /\ update_order_status("admin1", 1, new_status, NoTracking)
    \/ \E order_ids \in {{1}, {1, MissingId}},
          new_status \in {"confirmed", "cancelled"} :
          Idle /\ bulk_status_update("vendor1", order_ids, new_status, {})
    \/ \E data_status \in {"confirmed", "delivered"} :
          Idle /\ order_detail_update("admin1", 1, data_status)
    \/ \E user \in {"customer1", "vendor2"} :
          Idle /\ order_detail_destroy(user, 1)
    \/ \E user \in {"customer1", "customer2", "vendor1", "vendor2", "admin1"},
          order_id \in {1, MissingId}, content \in NoteInputs :
          Idle /\ order_notes(user, order_id, content)
    \/ \E refund_amount \in RefundAmountInputs :
          Idle /\ request_refund("customer1", 1, refund_amount, 0)
    \/ \E refund_id \in 1..Len(refunds),
          new_status \in {"approved", "completed"} :
          Idle /\ process_refund("admin1", refund_id, new_status)
    \/ respond

HistorySpec == Init /\ [][HistoryNext]_vars

-----------------------------------------------------------------------------
(* Two customers and an anonymous visitor, each naming lines of any cart *)

IsolationInit ==
    /\ orders = <<>>
    /\ orderItems = <<>>
    /\ history = [o \in 1..MaxOrders |-> <<>>]
    /\ refunds = <<>>
    /\ products = <<NewProduct("vendor1", 1000, 2), NewProduct("vendor2", 333, 1)>>
    /\ carts = [u \in Users \cup Sessions |-> <<>>]
    /\ clock = 0
    /\ patched = 0
    /\ last = NoRequest
    /\ inflight = [u \in Users |-> NoTx]
    /\ savedItems = [u \in Users |-> <<>>]

Owners == {"customer1", "customer2"} \cup Sessions

\* the actors whose requests name lines: a customer and an anonymous visitor
Requesters == {"customer1"} \cup Sessions

CartItemIds == {CartItemId(cart, index) : cart \in Owners, index \in 1..2}

\* the item_ids of bulk requests: none, one id, or two ids
BulkItemIds == {{}} \cup {{a, b} : a, b \in CartItemIds}

IsolationNext ==
    \/ \E product_id \in 1..2 :
          Idle /\ add_to_cart("customer1", product_id, 1)
    \/ Idle /\ add_to_cart("customer2", 1, 1)
    \/ \E session \in Sessions : Idle /\ add_to_cart(session, 2, 1)
    \/ \E owner \in Requesters, item \in CartItemIds :
          LET found == get_object_or_404(owner, item)
          IN  Idle /\ update_cart_item(found.cart, found.index, 2)
    \/ \E owner \in Requesters, item \in CartItemIds :
          LET found == get_object_or_404(owner, item)
          IN  Idle /\ remove_cart_item(found.cart, found.index)
    \/ \E user \in Requesters \cap Users, item \in CartItemIds :
          LET found == get_object_or_404(user, item)
          IN  Idle /\ save_for_later(found.cart, found.index)
    \/ \E owner \in Requesters, action \in BULK_ACTION_CHOICES,
          item_ids \in BulkItemIds :
          Idle /\ bulk_cart_actions(owner, action, item_ids)
    \/ \E session \in Sessions : Idle /\ merge_carts("customer1", session)
    \/ respond

IsolationSpec == IsolationInit /\ [][IsolationNext]_vars

-----------------------------------------------------------------------------
(* The three definitions of the transition table, asked about every pair *)

TransitionInit ==
    /\ orders = <<>>
    /\ orderItems = <<>>
    /\ history = [o \in 1..MaxOrders |-> <<>>]
    /\ refunds = <<>>
    /\ products = <<>>
    /\ carts = [u \in Users |-> <<>>]
    /\ clock = 0
    /\ patched = 0
    /\ last = NoRequest
    /\ inflight = [u \in Users |-> NoTx]
    /\ savedItems = [u \in Users |-> <<>>]

TransitionNext ==
    \/ \E current_status, new_status \in ORDER_STATUS_CHOICES :
          Idle /\ call_can_update_status(current_status, new_status)
    \/ \E current_status, new_status \in ORDER_STATUS_CHOICES :
          Idle /\ call_validate_order_status_transition(current_status,
                                                        new_status)
    \/ \E current_status, value \in ORDER_STATUS_CHOICES :
          Idle /\ call_validate_status(current_status, value)
    \/ respond

TransitionSpec == TransitionInit /\ [][TransitionNext]_vars

-----------------------------------------------------------------------------
(* A delivered order under status updates and refunds *)

DeliveredInit ==
    /\ orders = <<[PlacedOrder("customer1", 20000)
                     EXCEPT !.status = "delivered"]>>
    /\ orderItems = <<OrderItemRow(1, "vendor1", 1, 10000, 2)>>
    /\ history = [o \in 1..MaxOrders |-> <<>>]
    /\ refunds = <<>>
    /\ products = <<>>
    /\ carts = [u \in Users |-> <<>>]
    /\ clock = 0
    /\ patched = 0
    /\ last = NoRequest
    /\ inflight = [u \in Users |-> NoTx]
    /\ savedItems = [u \in Users |-> <<>>]

\* the amounts of refund requests: less and more than the 232.00 of the order
DeliveredAmountInputs == {10000, 30000}

\* the processing fees of refund requests: none, and more than 100.00
DeliveredFeeInputs == {0, 20000}

DeliveredNext ==
    \/ \E user \in {"admin1", "vendor1", "customer1"},
          new_status \in {"refunded", "cancelled"} :
          Idle /\ update_order_status(user, 1, new_status, NoTracking)
    \/ \E user \in {"customer1", "customer2"},
          refund_amount \in DeliveredAmountInputs,
          processing_fee \in DeliveredFeeInputs :
          Idle /\ request_refund(user, 1, refund_amount, processing_fee)
    \/ \E user \in {"admin1", "customer1"},
          refund_id \in 1..(Len(refunds) + 1),
          new_status \in RefundStatusInputs :
          Idle /\ process_refund(user, refund_id, new_status)
    \/ respond

DeliveredSpec == DeliveredInit /\ [][DeliveredNext]_vars

-----------------------------------------------------------------------------
(* Properties of the order lifecycle *)

\* the transition table as the specification states it
LegalEdges ==
    {<<"pending", "confirmed">>, <<"confirmed", "processing">>,
     <<"processing", "shipped">>, <<"shipped", "delivered">>,
     <<"delivered", "refunded">>,
     <<"pending", "cancelled">>, <<"confirmed", "cancelled">>,
     <<"processing", "cancelled">>, <<"shipped", "cancelled">>}

OrderUntouched(o) == orders'[o] = orders[o] /\ history'[o] = history[o]

\* C1: update_order_status called by an admin succeeds and sets the status to
\* `to` exactly when (from, to) is an edge of the transition table; for every
\* other pair of statuses it fails with an error naming both statuses and
\* leaves the order (status, timestamps, tracking number) and its history
\* unchanged.
C1_AdminTransitions ==
    [][\A o \in OrderIds, to \in ORDER_STATUS_CHOICES,
          trk \in {NoTracking, "TRK1"} :
          (/\ last'.op = "update_order_status"
           /\ last'.actor = "admin1"
           /\ Idle
           /\ update_order_status("admin1", o, to, trk)) =>
             IF <<orders[o].status, to>> \in LegalEdges
             THEN last'.code = 200 /\ orders'[o].status = to
             ELSE /\ last'.code = 400
                  /\ last'.error = "Cannot change status"
                  /\ last'.from = orders[o].status
                  /\ last'.to = to
                  /\ OrderUntouched(o)]_vars

\* an admin was refused the transition delivered -> confirmed
C1_Witness ==
    /\ last.op = "update_order_status"
    /\ last.actor = "admin1"
    /\ last.code = 400
    /\ last.from = "delivered"
    /\ last.to = "confirmed"
    /\ orders[last.object].status = "delivered"

\* C2: over every entry point, every change of an order's status is an edge
\* of the transition table; in particular a cancelled or refunded order never
\* changes status again.
C2_OnlyTableEdges ==
    [][\A o \in OrderIds :
          orders'[o].status # orders[o].status =>
             /\ orders[o].status \notin {"cancelled", "refunded"}
             /\ <<orders[o].status, orders'[o].status>> \in LegalEdges]_vars

\* C3: a vendor changes an order through update_order_status or
\* bulk_status_update only if an OrderItem of the order references that
\* vendor; otherwise neither the order nor its history changes.  An admin is
\* never refused for lack of permission.
C3_VendorNeedsItem ==
    [][/\ \A o \in OrderIds :
            (/\ last'.op \in {"update_order_status", "bulk_status_update"}
             /\ last'.actor \in Users
             /\ role[last'.actor] = "vendor"
             /\ ~\E i \in 1..Len(orderItems) :
                    /\ orderItems[i].order = o
                    /\ orderItems[i].vendor = last'.actor)
            => OrderUntouched(o)
       /\ (/\ last'.op \in {"update_order_status", "bulk_status_update"}
           /\ last'.actor \in Users
           /\ role[last'.actor] = "admin")
            => last'.code # 403]_vars

\* a vendor without an item in the order asked for a status change and was
\* refused
C3_Witness ==
    /\ last.op = "update_order_status"
    /\ last.actor = "vendor2"
    /\ last.code = 403
    /\ last.object \in OrderIds
    /\ \A i \in 1..Len(orderItems) :
          orderItems[i].order = last.object => orderItems[i].vendor # "vendor2"

\* C4: a customer causes no status change other than a change to cancelled of
\* an order of their own, and that only while the order is pending or
\* confirmed.
C4_CustomerOnlyCancels ==
    [][\A o \in OrderIds :
          (/\ last'.actor \in Users
           /\ role[last'.actor] = "customer"
           /\ orders'[o].status # orders[o].status)
          => /\ orders'[o].status = "cancelled"
             /\ orders[o].customer = last'.actor
             /\ orders[o].status \in {"pending", "confirmed"}]_vars

\* C5: every change of an order's status appends exactly one history row,
\* whose previous_status is the status before the change, whose new_status is
\* the status after it and whose changed_by is the acting user.
C5_ChangeLogged ==
    [][\A o \in OrderIds :
          orders'[o].status # orders[o].status =>
             /\ Len(history'[o]) = Len(history[o]) + 1
             /\ SubSeq(history'[o], 1, Len(history[o])) = history[o]
             /\ LET row == history'[o][Len(history'[o])]
                IN  /\ row.previous_status = orders[o].status
                    /\ row.new_status = orders'[o].status
                    /\ row.changed_by = last'.actor]_vars

\* C6: confirmed_at / shipped_at / delivered_at is null until the order first
\* becomes confirmed / shipped / delivered, is set at the moment the order
\* reaches that status, and is never modified afterwards.
Stamped(o, field, reached) ==
    /\ (orders[o][field] = Null /\ orders'[o][field] # Null)
          => (orders'[o].status = reached /\ orders[o].status # reached)
    /\ (orders'[o].status = reached /\ orders[o].status # reached)
          => orders'[o][field] # Null
    /\ orders[o][field] # Null => orders'[o][field] = orders[o][field]

C6_StampedOnce ==
    [][\A o \in OrderIds :
          /\ Stamped(o, "confirmed_at", "confirmed")
          /\ Stamped(o, "shipped_at", "shipped")
          /\ Stamped(o, "delivered_at", "delivered")]_vars

\* C7: bulk_status_update treats every requested order independently of the
\* others: an order whose transition is allowed and whose update does not
\* fail is updated and reported updated; an order whose transition is not
\* allowed, or whose update raises, is reported failed and neither it nor its
\* history changes; a history row is written for an order exactly when its
\* status changed.
C7_BulkIndependent ==
    [][last'.op = "bulk_status_update" =>
          \A o \in OrderIds :
             /\ o \in last'.failed => OrderUntouched(o)
             /\ o \in last'.updated =>
                   /\ <<orders[o].status, orders'[o].status>> \in LegalEdges
                   /\ o \notin last'.failed
             /\ (history'[o] # history[o])
                   <=> (orders'[o].status # orders[o].status)]_vars

-----------------------------------------------------------------------------
(* Properties of checkout *)

\* C8: checkout is all-or-nothing: a checkout that fails after validation
\* leaves no Order and no OrderItem, every product's stock_quantity and
\* in_stock as before and the cart with the same lines and quantities; a
\* cart is emptied only by a checkout that persisted the Order and one
\* OrderItem per line.
C8_CheckoutAtomic ==
    [][last'.op = "convert_cart_to_order" =>
          /\ last'.code # 201 =>
                /\ orders' = orders
                /\ orderItems' = orderItems
                /\ products' = products
                /\ carts' = carts
          /\ \A u \in Users :
                carts'[u] # carts[u] =>
                   /\ u = last'.actor
                   /\ carts'[u] = <<>>
                   /\ Len(orders') = Len(orders) + 1
                   /\ Len(orderItems') = Len(orderItems) + Len(carts[u])
                   /\ \A i \in (Len(orderItems) + 1)..Len(orderItems') :
                         orderItems'[i].order = Len(orders')]_vars

\* a checkout of a cart of two lines failed inside the transaction and the
\* cart still holds both lines
C8_Witness ==
    /\ last.op = "convert_cart_to_order"
    /\ last.code = 500
    /\ Len(carts[last.actor]) = 2

BlankText(s) == \A i \in 1..Len(s) : s[i] = " "

\* C9: a checkout on a cart without lines, or with a shipping_address or a
\* shipping_phone that is missing or empty once trimmed, fails with an error
\* and creates no Order or OrderItem, changes no stock and leaves the cart
\* as it was.
C9_CheckoutRejected ==
    [][\A u \in Customers, data \in CheckoutInputs :
          \A fault \in Faults(carts[u]) :
             (/\ last'.op = "convert_cart_to_order"
              /\ last'.actor = u
              /\ \/ carts[u] = <<>>
                 \/ BlankText(data.shipping_address)
                 \/ BlankText(data.shipping_phone)
              /\ Idle
              /\ convert_cart_to_order(u, data, fault))
             => /\ last'.code = 400
                /\ orders' = orders
                /\ orderItems' = orderItems
                /\ products' = products
                /\ carts' = carts]_vars

\* a checkout of a cart with lines was refused for its shipping address,
\* which the required-fields test had let through (it held only blanks)
C9_Witness ==
    /\ last.op = "convert_cart_to_order"
    /\ last.code = 400
    /\ last.error = "shipping_address"
    /\ carts[last.actor] # <<>>

RECURSIVE LineSum(_, _)
LineSum(cart, n) ==
    IF n = 0 THEN 0
    ELSE cart[n].unit_price * cart[n].quantity + LineSum(cart, n - 1)

\* every line of the cart is for a product with enough stock, if it exists
StockSuffices(cart) ==
    \A i \in 1..Len(cart) :
       ProductExists(products, cart[i].product_id)
          => products[cart[i].product_id].stock_quantity >= cart[i].quantity

\* C10: a checkout of a cart with lines, with valid data, enough stock and
\* no datastore error succeeds, and the Order it creates has status pending,
\* subtotal equal to the sum over the cart's lines of the stored unit_price
\* times the quantity, tax_amount equal to 16% of the subtotal rounded to two
\* decimal places, shipping_fee 0, discount_amount 0 and total_amount equal
\* to subtotal + tax_amount + shipping_fee - discount_amount on the stored
\* values.
C10_OrderTotals ==
    [][\A u \in Customers :
          (/\ last'.op = "convert_cart_to_order"
           /\ last'.actor = u
           /\ Idle
           /\ carts[u] # <<>>
           /\ StockSuffices(carts[u])
           /\ convert_cart_to_order(u, ValidData, NoFault))
          => /\ last'.code = 201
             /\ Len(orders') = Len(orders) + 1
             /\ LET order == orders'[Len(orders')]
                    cart == carts[u]
                IN  /\ order.status = "pending"
                    /\ order.subtotal = LineSum(cart, Len(cart))
                    /\ 100 * order.tax_amount - 16 * order.subtotal
                          \in -50..50
                    /\ order.shipping_fee = 0
                    /\ order.discount_amount = 0
                    /\ order.total_amount =
                          order.subtotal + order.tax_amount
                            + order.shipping_fee - order.discount_amount]_vars

\* C11: from a cart with one line of unit_price 100.00 and quantity 2, for a
\* product with at least 2 in stock, the checkout succeeds and creates an
\* Order with subtotal 200.00, tax_amount 32.00 and total_amount 232.00 and
\* exactly one OrderItem, with platform_commission 30.00 and vendor_earnings
\* 170.00, leaves the cart without items and reduces the product's stock by
\* 2.
C11_EndToEnd ==
    [][\A u \in Customers :
          (/\ last'.op = "convert_cart_to_order"
           /\ last'.actor = u
           /\ Idle
           /\ Len(carts[u]) = 1
           /\ carts[u][1].unit_price = 10000
           /\ carts[u][1].quantity = 2
           /\ products[carts[u][1].product_id].stock_quantity >= 2
           /\ convert_cart_to_order(u, ValidData, NoFault))
          => /\ last'.code = 201
             /\ Len(orders') = Len(orders) + 1
             /\ Len(orderItems') = Len(orderItems) + 1
             /\ LET order == orders'[Len(orders')]
                    item == orderItems'[Len(orderItems')]
                    p == carts[u][1].product_id
                IN  /\ order.customer = u
                    /\ order.subtotal = 20000
                    /\ order.tax_amount = 3200
                    /\ order.total_amount = 23200
                    /\ item.order = Len(orders')
                    /\ item.platform_commission = 3000
                    /\ item.vendor_earnings = 17000
                    /\ carts'[u] = <<>>
                    /\ products'[p].stock_quantity
                          = products[p].stock_quantity - 2]_vars

Max0(n) == IF n < 0 THEN 0 ELSE n

\* C12: a checkout that nothing but the stock could stop succeeds, and for
\* each line of quantity q whose product has stock s it leaves the product
\* with stock_quantity max(0, s - q), never negative, and not in stock when
\* that is <= 0; it does not fail merely because q > s.
C12_StockClamped ==
    [][\A u \in Customers :
          (/\ last'.op = "convert_cart_to_order"
           /\ last'.actor = u
           /\ Idle
           /\ carts[u] # <<>>
           /\ Len(orders) < MaxOrders
           /\ convert_cart_to_order(u, ValidData, NoFault))
          => /\ last'.code = 201
             /\ \A i \in 1..Len(carts[u]) :
                   LET p == carts[u][i].product_id
                   IN  p \in 1..Len(products) =>
                         /\ products'[p].stock_quantity =
                               Max0(products[p].stock_quantity
                                      - carts[u][i].quantity)
                         /\ products'[p].stock_quantity <= 0
                               => ~products'[p].in_stock]_vars

C14_ReachesStockUpdate ==
    [][\A user \in Customers :
          /\ inflight[user].pc = "item"
          /\ inflight'[user] # inflight[user]
          => inflight'[user].pc = "read"]_vars

\* the suffixes of the orders of a month, as numbers
SuffixesOf(rows, base) ==
    {Number(rows[i].order_number.suffix) :
       i \in {j \in 1..Len(rows) : rows[j].order_number.base = base}}

\* C15: every order number that Order.save comes to insert is new and
\* monotonic: 1000 if its month has no order yet, otherwise a suffix greater
\* than that of every order of the month, so that the order is inserted and
\* no two orders share a number
C15_NumbersMonotonic ==
    [][\A user \in Customers :
          /\ inflight[user].pc = "insert"
          /\ inflight'[user].pc = "idle"
          => LET order_number == inflight[user].order_number
                 existing == SuffixesOf(orders, order_number.base)
             IN  /\ existing = {}
                      => Number(order_number.suffix) = FIRST_ORDER_NUMBER
                 /\ \A n \in existing : n < Number(order_number.suffix)
                 /\ Len(orders') = Len(orders) + 1
                 /\ orders'[Len(orders')].order_number = order_number]_vars

\* the three derived amounts of a stored OrderItem are those of the claim
DerivedAmounts(item) ==
    /\ item.total_price = item.unit_price * item.quantity
    /\ item.platform_commission =
          RoundHalfEven(item.total_price * item.commission_rate.hundredths,
                        10000)
    /\ item.vendor_earnings = item.total_price - item.platform_commission

\* C16: every save of an OrderItem, for any unit_price, quantity >= 1 and
\* commission_rate from 0 to 100 percent, stores total_price = unit_price x
\* quantity, platform_commission = total_price x commission_rate / 100
\* rounded to two decimals and vendor_earnings = total_price -
\* platform_commission on the stored values, whatever the caller supplied
\* for the three
C16_ItemAmounts ==
    [][/\ (\E unit_price \in UnitPriceInputs,
              quantity \in ItemQuantityInputs,
              commission_rate \in CommissionRateInputs,
              supplied \in SuppliedInputs :
              OrderItem_objects_create("vendor1", unit_price, quantity,
                                       commission_rate, supplied))
          => /\ Len(orderItems') = Len(orderItems) + 1
             /\ DerivedAmounts(orderItems'[Len(orderItems')])
       /\ \A i \in 1..Len(orderItems) :
             (\E quantity \in ItemQuantityInputs : OrderItem_save(i, quantity))
             => DerivedAmounts(orderItems'[i])]_vars

\* net_refund_amount of a refund is refund_amount less processing_fee
NetRecomputed(refund) ==
    refund.net_refund_amount = refund.refund_amount - refund.processing_fee

\* C17: after every save of an OrderRefund (at its creation, after an edit of
\* refund_amount, and in process_refund) net_refund_amount is refund_amount
\* less processing_fee, recomputed from the values the refund then has
C17_NetRecomputed ==
    [][/\ Len(refunds') = Len(refunds) + 1
             => NetRecomputed(refunds'[Len(refunds')])
       /\ \A i \in 1..Len(refunds) :
             /\ (\E refund_amount \in EditedAmountInputs :
                    edit_refund_amount(i, refund_amount, TRUE))
                => /\ NetRecomputed(refunds'[i])
                   /\ refunds'[i].refund_amount # refunds[i].refund_amount
             /\ (/\ last'.op = "process_refund"
                 /\ last'.code = 200
                 /\ last'.object = i
                 /\ Idle)
                => /\ NetRecomputed(refunds'[i])
                   /\ refunds'[i].refund_amount = refunds[i].refund_amount
                   /\ refunds'[i].processing_fee
                         = refunds[i].processing_fee]_vars

\* a refund requested for 100.00 with a fee of 10.00, whose amount was then
\* edited to 50.00, has been processed and its net amount is 40.00
C17_Witness ==
    /\ last.op = "process_refund"
    /\ last.code = 200
    /\ refunds[last.object].refund_amount = 5000
    /\ refunds[last.object].processing_fee = 1000
    /\ refunds[last.object].net_refund_amount = 4000

OneLinePerProduct(cart) ==
    \A i, j \in 1..Len(cart) :
       cart[i].product_id = cart[j].product_id => i = j

\* C20: whatever add_to_cart, quick_add_to_cart, update_cart_item,
\* move_to_cart, merge_carts and the removals do, every cart holds at most
\* one line per product; an add_to_cart that is accepted for a product the
\* cart already holds adds its quantity to the line of that product and
\* creates no line
C20_OneLinePerProduct ==
    [][/\ \A owner \in DOMAIN carts : OneLinePerProduct(carts'[owner])
       /\ \A owner \in DOMAIN carts, product_id \in ProductIds,
             quantity \in CartQuantityInputs :
             (/\ last'.op = "add_to_cart"
              /\ last'.actor = owner
              /\ last'.code = 200
              /\ LineOf(carts[owner], product_id) # 0
              /\ Idle
              /\ add_to_cart(owner, product_id, quantity))
             => LET i == LineOf(carts[owner], product_id)
                IN  /\ Len(carts'[owner]) = Len(carts[owner])
                    /\ carts'[owner][i].quantity
                          = carts[owner][i].quantity + quantity]_vars

\* product 1 was added to a cart that held 2 of it and another product: the
\* cart holds one line of 5 and the other line
C20_Witness ==
    /\ last.op = "add_to_cart"
    /\ last.code = 200
    /\ last.object = 1
    /\ Len(carts[last.actor]) = 2
    /\ \E i \in 1..2 :
          /\ carts[last.actor][i].product_id = 1
          /\ carts[last.actor][i].quantity = 5

\* C21: add_to_cart is accepted only for a product that exists, is active
\* and is available, and only if the quantity of the line after the request
\* (what the line held plus what is added) is at most the stock_quantity of
\* the product; update_cart_item is accepted only if the new quantity is at
\* most the stock_quantity of the product of the line; a request that is
\* rejected leaves the carts as they were
C21_QuantityWithinStock ==
    [][(Idle /\ last'.op \in {"add_to_cart", "update_cart_item"})
       => IF last'.code # 200 THEN carts' = carts
          ELSE LET cart == carts'[last'.actor]
                   i == IF last'.op = "add_to_cart"
                        THEN LineOf(cart, last'.object)
                        ELSE last'.object
                   product_id == cart[i].product_id
               IN  /\ i \in 1..Len(cart)
                   /\ product_id \in ProductIds
                   /\ cart[i].quantity <= products[product_id].stock_quantity
                   /\ last'.op = "add_to_cart"
                         => /\ products[product_id].is_active
                            /\ is_available(products[product_id])]_vars

\* C22: after a move_to_cart that is accepted, the line of the cart for the
\* product of the saved item carries the current price of the catalogue and
\* the saved item is gone; when the product is missing, inactive, unavailable
\* or short of stock the move is rejected, and a rejected move leaves the
\* saved items and the cart as they were
C22_MovedAtCurrentPrice ==
    [][(/\ Idle
        /\ last'.op = "move_to_cart"
        /\ last'.object \in 1..Len(savedItems[last'.actor]))
       => LET user == last'.actor
              product_id == savedItems[user][last'.object].product_id
              i == LineOf(carts'[user], product_id)
          IN  /\ last'.code = 200
                 => /\ i # 0
                    /\ carts'[user][i].unit_price = products[product_id].price
                    /\ SavedOf(savedItems'[user], product_id) = 0
              /\ last'.code # 200
                 => carts' = carts /\ savedItems' = savedItems
              /\ (\/ product_id \notin ProductIds
                  \/ ~products[product_id].is_active
                  \/ ~is_available(products[product_id])
                  \/ i # 0 /\ carts'[user][i].quantity
                                 > products[product_id].stock_quantity)
                 => last'.code # 200]_vars

\* the units of the product in the cart, over all its lines
RECURSIVE QuantityOf(_, _)
QuantityOf(cart, product_id) ==
    IF cart = <<>> THEN 0
    ELSE (IF Head(cart).product_id = product_id
          THEN Head(cart).quantity ELSE 0)
         + QuantityOf(Tail(cart), product_id)

\* C23: after merge_carts of a user whose session owns an anonymous cart, the
\* user's cart holds of every product what it held plus what the anonymous
\* cart held, it still has at most one line per product, and the anonymous
\* cart and its lines are gone
C23_MergeSums ==
    [][\A session \in Sessions :
          (Idle /\ last'.op = "merge_carts")
          => LET user == last'.actor
             IN  /\ last'.code = 200
                 /\ \A product_id \in 1..Len(products) :
                       QuantityOf(carts'[user], product_id)
                          = QuantityOf(carts[user], product_id)
                              + QuantityOf(carts[session], product_id)
                 /\ OneLinePerProduct(carts'[user])
                 /\ carts'[session] = <<>>]_vars

\* a merge has just left the user with two lines, one of them of 5 units
\* (2 and 3 of the same product), and no anonymous cart
C23_Witness ==
    /\ last.op = "merge_carts"
    /\ last.code = 200
    /\ Len(carts[last.actor]) = 2
    /\ \E i \in 1..2 : carts[last.actor][i].quantity = 5
    /\ \A session \in Sessions : carts[session] = <<>>

\* C24: the OrderStatusHistory rows of an order only grow: every step keeps
\* the rows an order had, in place and unchanged, and may add rows after
\* them; a note added through order_notes appends one row whose
\* previous_status and new_status are both the status of the order, written
\* by the user with the text of the note, and changes no order
C24_HistoryAppendOnly ==
    [][/\ \A o \in DOMAIN history :
             /\ Len(history'[o]) >= Len(history[o])
             /\ SubSeq(history'[o], 1, Len(history[o])) = history[o]
       /\ (Idle /\ last'.op = "order_notes" /\ last'.code = 200)
          => LET o == last'.object
                 row == history'[o][Len(history'[o])]
             IN  /\ Len(history'[o]) = Len(history[o]) + 1
                 /\ row.previous_status = orders[o].status
                 /\ row.new_status = orders[o].status
                 /\ row.changed_by = last'.actor
                 /\ row.notes \in NoteInputs \ {""}
                 /\ orders' = orders
                 /\ \A other \in DOMAIN history \ {o} :
                       history'[other] = history[other]]_vars

\* a note has just been added to an order whose history already held the
\* row of a status change
C24_Witness ==
    /\ last.op = "order_notes"
    /\ last.code = 200
    /\ Len(history[last.object]) = 2
    /\ history[last.object][1].previous_status
          # history[last.object][1].new_status
    /\ history[last.object][2].previous_status = orders[last.object].status
    /\ history[last.object][2].new_status = orders[last.object].status

\* the id names a line that a cart other than the cart of the request holds
Foreign(owner, item) ==
    /\ item.cart # owner
    /\ item.index \in 1..Len(carts[item.cart])

\* the request is answered "not found" and no cart and no saved item changes
NotFoundUnchanged ==
    /\ last'.code = 404
    /\ carts' = carts
    /\ savedItems' = savedItems

\* C25: update_cart_item, remove_cart_item, save_for_later and
\* bulk_cart_actions, sent with the id of a line of another actor's cart,
\* are answered "not found" and change nothing
C25_ForeignIdFails ==
    [][\A owner \in Requesters, item \in CartItemIds :
          (Idle /\ Foreign(owner, item))
          => LET found == get_object_or_404(owner, item)
             IN  /\ update_cart_item(found.cart, found.index, 2)
                    => NotFoundUnchanged
                 /\ remove_cart_item(found.cart, found.index)
                    => NotFoundUnchanged
                 /\ (owner \in Users
                       /\ save_for_later(found.cart, found.index))
                    => NotFoundUnchanged
                 /\ \A action \in BULK_ACTION_CHOICES,
                       item_ids \in BulkItemIds :
                       (item \in item_ids
                          /\ bulk_cart_actions(owner, action, item_ids))
                       => NotFoundUnchanged]_vars

TransitionDefinitions ==
    {"_can_update_status", "validate_order_status_transition",
     "validate_status"}

\* C26: views._can_update_status, utils.validate_order_status_transition
\* and OrderUpdateSerializer.validate_status are one relation: whichever of
\* them is asked about a pair of the seven statuses, its answer is the
\* answer of each of the three
C26_SameRelation ==
    last.op \in TransitionDefinitions
    => /\ (last.code = 200) = can_update_status(last.from, last.to)
       /\ (last.code = 200)
             = validate_order_status_transition(last.from, last.to)
       /\ (last.code = 200) = validate_status(last.from, last.to)

\* utils.validate_order_status_transition has refused to confirm a cancelled
\* order
C26_Witness ==
    /\ last.op = "validate_order_status_transition"
    /\ last.from = "cancelled"
    /\ last.to = "confirmed"
    /\ last.code = 400

\* C27: the answer of bulk_status_update accounts for every order id of the
\* request once, among the updated or among the failed: no order is in both
\* lists, and summary.successful + summary.failed = summary.total_processed
C27_AllAccounted ==
    [][(Idle /\ last'.op = "bulk_status_update" /\ last'.code = 200)
       => /\ last'.updated \cap last'.failed = {}
          /\ Cardinality(last'.updated) + Cardinality(last'.failed)
                = last'.total]_vars

\* the OrderItem rows of the order, oldest first
ItemsOfOrder(rows, order_id) ==
    SelectSeq(rows, LAMBDA item : item.order = order_id)

\* the sum of a field over OrderItem rows
RECURSIVE ItemSum(_, _)
ItemSum(rows, field) ==
    IF rows = <<>> THEN 0
    ELSE Head(rows)[field] + ItemSum(Tail(rows), field)

\* C28: a checkout of a cart with lines, with valid data, enough stock and
\* no datastore error creates an Order with one OrderItem per line of the
\* cart, in the order of the lines, each with the quantity, unit price and
\* vendor of its line; Order.subtotal is the sum of total_price over these
\* items, and the sum of their vendor_earnings (Order.vendor_earnings) plus
\* the sum of their platform_commission is Order.subtotal
C28_OrderMatchesItems ==
    [][\A u \in Customers :
          (/\ last'.op = "convert_cart_to_order"
           /\ last'.actor = u
           /\ Idle
           /\ carts[u] # <<>>
           /\ StockSuffices(carts[u])
           /\ convert_cart_to_order(u, ValidData, NoFault))
          => /\ last'.code = 201
             /\ Len(orders') = Len(orders) + 1
             /\ LET order == orders'[Len(orders')]
                    lines == CartItemsAll(carts[u])
                    items == ItemsOfOrder(orderItems', Len(orders'))
                IN  /\ Len(items) = Len(lines)
                    /\ \A i \in 1..Len(lines) :
                          /\ items[i].quantity = lines[i].quantity
                          /\ items[i].unit_price = lines[i].unit_price
                          /\ items[i].vendor = lines[i].vendor
                    /\ order.subtotal = ItemSum(items, "total_price")
                    /\ ItemSum(items, "vendor_earnings")
                         + ItemSum(items, "platform_commission")
                          = order.subtotal]_vars

\* C29: an order whose status is refunded has an OrderRefund whose status
\* is completed
C29_RefundedHasCompleted ==
    \A o \in OrderIds :
       orders[o].status = "refunded"
          => \E r \in 1..Len(refunds) :
                refunds[r].order = o /\ refunds[r].status = "completed"

\* the sum of refund_amount over the completed OrderRefunds of the order
RECURSIVE CompletedRefunds(_, _)
CompletedRefunds(rows, order_id) ==
    IF rows = <<>> THEN 0
    ELSE (IF Head(rows).order = order_id /\ Head(rows).status = "completed"
          THEN Head(rows).refund_amount ELSE 0)
         + CompletedRefunds(Tail(rows), order_id)

\* C30: the completed refunds of an order never add up to more than the
\* total_amount of the order, and the net_refund_amount of every OrderRefund
\* lies between 0 and its refund_amount
C30_RefundsWithinTotal ==
    /\ \A o \in OrderIds :
          CompletedRefunds(refunds, o) <= orders[o].total_amount
    /\ \A r \in 1..Len(refunds) :
          /\ 0 <= refunds[r].net_refund_amount
          /\ refunds[r].net_refund_amount <= refunds[r].refund_amount

====
